---- MODULE Spec2Model ----
(***************************************************************************)
(* State-machine model of the File_Organizer planning/execution engine:    *)
(* the item model, the executor, the two orchestration modes, the five     *)
(* steps and the SQLite undo log.                                          *)
(*                                                                         *)
(* The file system is a finite map from file paths to file data.           *)
(* Directories are implicit: every move in the code is preceded by         *)
(* mkdir(parents=True), and removing an empty directory changes no file.   *)
(***************************************************************************)
EXTENDS Integers, Sequences, FiniteSets, TLC

VARIABLES
    fs,          \* the files on disk: path -> [content, size, exif, mtime, ctime]
    operations,  \* rows of table operations: [id, operation_id, created_at]
    changes,     \* rows of table changes: [id, operation_id, original_path, new_path, action]
    opSeq,       \* AUTOINCREMENT counter of table operations
    chSeq,       \* AUTOINCREMENT counter of table changes
    clock,       \* CURRENT_TIMESTAMP, in whole seconds
    last,        \* the most recent undo-log call: its inputs, pre-state and result
    items,       \* the FileItem list of the run in flight
    run,         \* the orchestration in flight: mode, options, progress
    env          \* calls the environment may still make (bounds the model)

vars == <<fs, operations, changes, opSeq, chSeq, clock, last, items, run, env>>

----------------------------------------------------------------------------
(* Bounds of the model                                                     *)

MaxSaves == 2        \* save_operation calls per behaviour (undo API specification)
MaxClock == 1        \* seconds the clock may advance (retention specification)
MaxEvictSaves == 12  \* save_operation calls per behaviour (retention specification)
MaxEvictUndos == 1   \* undo calls per behaviour (retention specification)
MaxSteps == 2       \* steps of one run-all or batch request (organizer specification)
MaxDedupFiles == 3  \* files of the folder handed to Deduplicate
MaxFilenameFiles == 2  \* files of the folder handed to Filename
MaxStdFiles == 2       \* files of the folder handed to Standardize
MaxGroupFiles == 2     \* files of the tree handed to Group
MaxTransferFiles == 2  \* source files of the tree handed to Transfer
MaxScanFiles == 3      \* files of the tree handed to the scanner
MaxLimit == 3          \* largest limit passed to scan_count
MaxReportSteps == 2    \* steps of the run-all request whose reports are compared

(* Program constant                                                        *)
MAX_HISTORY == 10

----------------------------------------------------------------------------
(* Paths and names                                                         *)

\* A timestamp in a file name: the instant dt (seconds), the separator
\* between date and time (" " or "_"; "" when the name has no timestamp),
\* 12-hour clock with AM/PM or 24-hour clock, and the six-digit field
\* "_%f" (-1 when absent).
NoTs == [dt |-> 0, sep |-> "", h12 |-> FALSE, us |-> 0 - 1]

\* A file name: optional timestamp prefix, body text, " (n)" duplicate
\* marker (dup = n; dup = -1 is the prefix "Copy of "), appended counters
\* "_n" (<<0, n>>) and "_00000n" (<<6, n>>), extension (with its dot, ""
\* when none).
Nm(base, ext) == [ts |-> NoTs, base |-> base, dup |-> 0, sfx |-> <<>>, ext |-> ext]

NoName == Nm("", "")

P(dir, name) == [dir |-> dir, name |-> name]

\* Optional[Path] = None
NoPath == P(<<>>, NoName)

Parent(p) == p.dir

WithName(p, n) == P(p.dir, n)

\* Path.exists() for a file path
Exists(f, p) == p \in DOMAIN f

\* shutil.move(src, dst) of an existing file: os.rename semantics, an
\* existing destination file is replaced, src = dst is a no-op.
Mv(f, src, dst) ==
    IF src = dst THEN f
    ELSE [p \in (DOMAIN f \ {src}) \cup {dst} |-> IF p = dst THEN f[src] ELSE f[p]]

----------------------------------------------------------------------------
(* Undo log: UndoManagerSQLite                                             *)

Change(orig, new, action) == [original |-> orig, new |-> new, action |-> action]

OpIds == {o.operation_id : o \in operations}

\* SELECT ... FROM operations ORDER BY id DESC LIMIT 1
LatestOp(ops) == CHOOSE o \in ops : \A q \in ops : q.id <= o.id

\* Rows of a table as a sequence ordered by the key (k1, id); ORDER BY on a
\* column with ties returns the tied rows in rowid order.
RECURSIVE SortRows(_, _)
SortRows(rows, key) ==
    IF rows = {} THEN <<>>
    ELSE LET r == CHOOSE x \in rows :
                    \A y \in rows : key[x] < key[y] \/ (key[x] = key[y] /\ x.id <= y.id)
         IN <<r>> \o SortRows(rows \ {r}, key)

\* SELECT original_path, new_path, action FROM changes
\* WHERE operation_id = ? ORDER BY id DESC
ChangesOfAscending(chs, opid) ==
    LET rows == {c \in chs : c.operation_id = opid}
    IN SortRows(rows, [c \in rows |-> c.id])

ChangesOf(chs, opid) ==
    LET rows == {c \in chs : c.operation_id = opid}
    IN SortRows(rows, [c \in rows |-> 0 - c.id])

\* _cleanup_old_operations: SELECT operation_id FROM operations
\* ORDER BY created_at ASC LIMIT count - max_history
OldIdsNewestFirst(ops) ==
    LET n == Cardinality(ops)
        sorted == SortRows(ops, [o \in ops |-> 0 - o.created_at])
    IN IF n > MAX_HISTORY
       THEN {sorted[i].operation_id : i \in 1..(n - MAX_HISTORY)}
       ELSE {}

OldIds(ops) ==
    LET n == Cardinality(ops)
        sorted == SortRows(ops, [o \in ops |-> o.created_at])
    IN IF n > MAX_HISTORY
       THEN {sorted[i].operation_id : i \in 1..(n - MAX_HISTORY)}
       ELSE {}

\* One pass of the loop body of undo_last_operation / undo_operation over a
\* change row: DELETE and RENAME/MOVE move new_path back to original_path
\* when new_path exists; a missing new_path or a raised exception counts as
\* failed.
UndoOneMissingUncounted(f, c, fault) ==
    IF c.action \in {"DELETE", "RENAME", "MOVE"}
    THEN IF Exists(f, c.new_path)
         THEN IF fault THEN [fs |-> f, outcome |-> "failed"]
              ELSE [fs |-> Mv(f, c.new_path, c.original_path), outcome |-> "undone"]
         ELSE [fs |-> f, outcome |-> "skipped"]
    ELSE [fs |-> f, outcome |-> "skipped"]

UndoOneDeleteNotRestored(f, c, fault) ==
    IF c.action \in {"RENAME", "MOVE"}
    THEN IF Exists(f, c.new_path)
         THEN IF fault THEN [fs |-> f, outcome |-> "failed"]
              ELSE [fs |-> Mv(f, c.new_path, c.original_path), outcome |-> "undone"]
         ELSE [fs |-> f, outcome |-> "failed"]
    ELSE IF c.action = "DELETE" THEN [fs |-> f, outcome |-> "failed"]
    ELSE [fs |-> f, outcome |-> "skipped"]

UndoOne(f, c, fault) ==
    IF c.action \in {"DELETE", "RENAME", "MOVE"}
    THEN IF Exists(f, c.new_path)
         THEN IF fault THEN [fs |-> f, outcome |-> "failed"]
              ELSE [fs |-> Mv(f, c.new_path, c.original_path), outcome |-> "undone"]
         ELSE [fs |-> f, outcome |-> "failed"]
    ELSE [fs |-> f, outcome |-> "skipped"]

\* The loop "for original_path, new_path, action in changes" from position i
\* on; faults are the positions whose shutil.move raises.  The trace lists
\* the rows in the order they were attempted, each with the file system it
\* was attempted on and its outcome.
RECURSIVE UndoLoop(_, _, _, _, _)
UndoLoop(f, rows, faults, i, trace) ==
    IF i > Len(rows)
    THEN [fs |-> f, trace |-> trace]
    ELSE LET r == UndoOne(f, rows[i], i \in faults)
         IN UndoLoop(r.fs, rows, faults, i + 1,
                     Append(trace, [row |-> rows[i], on |-> f, outcome |-> r.outcome]))

CountOutcome(trace, o) == Cardinality({i \in 1..Len(trace) : trace[i].outcome = o})

NoLast ==
    [call |-> "none", opid |-> 0, savedOp |-> 0, afterSave |-> 0,
     fsBefore |-> <<>>, opsBefore |-> {}, chsBefore |-> {}, rows |-> <<>>,
     trace |-> <<>>, touched |-> FALSE, faults |-> {}, require_latest |-> FALSE,
     success |-> FALSE, undone_count |-> 0, failed_count |-> 0, message |-> ""]

\* save_operation(operation_id, changes): insert the operation and its
\* change rows, commit, then _cleanup_old_operations; a duplicate
\* operation_id raises IntegrityError and the transaction is rolled back.
\* StoreAfterSave is the store the call leaves behind.
StoreAfterSave(opid, chgs) ==
    IF opid \in OpIds
    THEN [operations |-> operations, changes |-> changes,
          opSeq |-> opSeq, chSeq |-> chSeq, saved |-> 0]
    ELSE LET row == [id |-> opSeq + 1, operation_id |-> opid, created_at |-> clock]
             crows == {[id |-> chSeq + i, operation_id |-> opid,
                        original_path |-> chgs[i].original,
                        new_path |-> chgs[i].new,
                        action |-> chgs[i].action] : i \in 1..Len(chgs)}
             ops1 == operations \cup {row}
             old == OldIds(ops1)
         IN [operations |-> {o \in ops1 : o.operation_id \notin old},
             changes |-> {c \in changes \cup crows : c.operation_id \notin old},
             opSeq |-> opSeq + 1, chSeq |-> chSeq + Len(chgs), saved |-> opid]

SaveOperation(opid, chgs) ==
    LET s == StoreAfterSave(opid, chgs)
    IN /\ operations' = s.operations
       /\ changes' = s.changes
       /\ opSeq' = s.opSeq
       /\ chSeq' = s.chSeq
       /\ last' = [NoLast EXCEPT !.call = "save", !.opid = opid, !.savedOp = s.saved,
                                 !.opsBefore = operations, !.chsBefore = changes]

\* The tail shared by both undo entry points: reverse the rows, delete the
\* operation and its change rows, build the result.
UndoRows(call, opid, rows, faults, req) ==
    LET r == UndoLoop(fs, rows, faults, 1, <<>>)
        undone == CountOutcome(r.trace, "undone")
        failed == CountOutcome(r.trace, "failed")
    IN /\ fs' = r.fs
       /\ changes' = {c \in changes : c.operation_id # opid}
       /\ operations' = {o \in operations : o.operation_id # opid}
       /\ last' = [NoLast EXCEPT !.call = call, !.opid = opid, !.afterSave = last.savedOp,
                                 !.fsBefore = fs, !.opsBefore = operations,
                                 !.chsBefore = changes, !.rows = rows,
                                 !.trace = r.trace, !.touched = TRUE,
                                 !.faults = faults, !.require_latest = req,
                                 !.success = undone > 0,
                                 !.undone_count = undone, !.failed_count = failed,
                                 !.message = "Undone"]

UndoRefused(call, opid, msg, req) ==
    /\ UNCHANGED <<fs, operations, changes>>
    /\ last' = [NoLast EXCEPT !.call = call, !.opid = opid, !.afterSave = last.savedOp,
                              !.fsBefore = fs, !.opsBefore = operations,
                              !.chsBefore = changes, !.message = msg,
                              !.require_latest = req]

\* undo_last_operation()
UndoLastOperation(faults) ==
    IF operations = {}
    THEN UndoRefused("undo_last", 0, "No operations to undo", FALSE)
    ELSE LET opid == LatestOp(operations).operation_id
         IN UndoRows("undo_last", opid, ChangesOf(changes, opid), faults, FALSE)

\* undo_operation(operation_id, require_latest)
UndoOperationAnyOrder(opid, require_latest, faults) ==
    IF ChangesOf(changes, opid) = <<>>
    THEN UndoRefused("undo_operation", opid, "No changes found for this operation",
                     require_latest)
    ELSE UndoRows("undo_operation", opid, ChangesOf(changes, opid), faults, require_latest)

UndoOperation(opid, require_latest, faults) ==
    IF require_latest /\ (operations = {} \/ LatestOp(operations).operation_id # opid)
    THEN UndoRefused("undo_operation", opid, "Only the latest operation can be undone",
                     require_latest)
    ELSE IF ChangesOf(changes, opid) = <<>>
    THEN UndoRefused("undo_operation", opid, "No changes found for this operation",
                     require_latest)
    ELSE UndoRows("undo_operation", opid, ChangesOf(changes, opid), faults, require_latest)

\* clear_history()
ClearHistory ==
    /\ operations' = {}
    /\ changes' = {}
    /\ last' = [NoLast EXCEPT !.call = "clear"]

----------------------------------------------------------------------------
(* Names, paths and time                                                   *)

HasTs(n) == n.ts.sep # ""

\* str.lower() on the name texts that occur
Lower(s) ==
    CASE s = ".JPG" -> ".jpg"
      [] s = ".JPEG" -> ".jpeg"
      [] OTHER -> s

LowerName(n) == [n EXCEPT !.base = Lower(@), !.ext = Lower(@)]

\* Path.stem
Stem(n) == [n EXCEPT !.ext = ""]

\* f"{stem}_{counter}{suffix}" (width 0) and f"{stem}_{counter:06d}{suffix}"
\* (width 6).  Six digits appended to a bare timestamp are the same text as
\* the timestamp's "_%f" field.
AddCounter(n, width, counter) ==
    IF width = 6 /\ HasTs(n) /\ n.ts.us = 0 - 1 /\ n.base = "" /\ n.dup = 0 /\ n.sfx = <<>>
    THEN [n EXCEPT !.ts.us = counter]
    ELSE [n EXCEPT !.sfx = Append(@, <<width, counter>>)]

\* name.startswith(".")
HiddenNames == {".DS_Store", ".keep"}

IsHidden(n) == ~HasTs(n) /\ n.dup = 0 /\ n.base \in HiddenNames

\* Path.relative_to(root) succeeds / its directory part
IsUnderDir(root, d) == Len(d) >= Len(root) /\ SubSeq(d, 1, Len(root)) = root

IsUnder(root, p) == IsUnderDir(root, p.dir)

RelDir(root, p) == SubSeq(p.dir, Len(root) + 1, Len(p.dir))

\* datetime.fromtimestamp(t): year and month of the instant t (whole
\* seconds, UTC), by the civil-from-days computation.
CivilYM(t) ==
    LET z == (t \div 86400) + 719468
        era == z \div 146097
        doe == z - era * 146097
        yoe == (doe - doe \div 1460 + doe \div 36524 - doe \div 146096) \div 365
        doy == doe - (365 * yoe + yoe \div 4 - yoe \div 100)
        mp == (5 * doy + 2) \div 153
        m == IF mp < 10 THEN mp + 3 ELSE mp - 9
    IN [year |-> yoe + era * 400 + (IF m <= 2 THEN 1 ELSE 0), month |-> m]

HourOf(t) == (t % 86400) \div 3600

\* str(dt.year) and f"{dt.month:02d}"
YearDir(t) == ToString(CivilYM(t).year)

MonthDir(t) ==
    LET m == CivilYM(t).month
    IN IF m < 10 THEN "0" \o ToString(m) ELSE ToString(m)

\* TimestampFormatter(preset, global_12h_format).format(dt): the separator
\* and the microsecond field come from the preset, the clock from the
\* global override; an unknown preset is formatted as "default".
FormatTs(cfg, dt, us) ==
    [dt |-> dt,
     sep |-> IF cfg.preset = "pcloud" THEN " " ELSE "_",
     h12 |-> cfg.hour_format_12,
     us |-> IF cfg.preset = "pcloud" THEN us ELSE 0 - 1]

\* formatter.config["include_microseconds"] = False
FormatTsNoMicroseconds(cfg, dt) == [FormatTs(cfg, dt, 0) EXCEPT !.us = 0 - 1]

File(content, size, exif, mtime, ctime) ==
    [content |-> content, size |-> size, exif |-> exif, mtime |-> mtime, ctime |-> ctime]

----------------------------------------------------------------------------
(* The item model: FileItem, ActionType, Context                           *)

Item(p) == [original_path |-> p, current_path |-> p,
            action |-> "NONE", destination_path |-> NoPath]

mark_delete(item) == [item EXCEPT !.action = "DELETE"]

mark_rename(item, new_name) ==
    LET cp == WithName(item.current_path, new_name)
    IN [item EXCEPT !.action = "RENAME", !.current_path = cp, !.destination_path = cp]

mark_move(item, new_folder) ==
    LET cp == P(new_folder, item.current_path.name)
    IN [item EXCEPT !.action = "MOVE", !.current_path = cp, !.destination_path = cp]

Context(dry_run, source_root, target_root, config, now) ==
    [dry_run |-> dry_run, source_root |-> source_root, target_root |-> target_root,
     config |-> config, now |-> now]

\* positions 1..n as a sequence
Idx(n) == [i \in 1..n |-> i]

----------------------------------------------------------------------------
(* Scanner.scan                                                            *)

\* Scanner.EXTENSIONS, for the extensions that occur
ExtCategory(ext) ==
    CASE ext \in {".jpg", ".jpeg", ".png", ".tiff", ".raw"} -> "photos"
      [] ext \in {".mp4", ".mov"} -> "video"
      [] ext \in {".txt", ".pdf"} -> "docs"
      [] OTHER -> "others"

\* The files scan() turns into items: regular files below source_root whose
\* own name does not start with "." and that pass the category filter.
Scanned(f, source_root, category) ==
    {p \in DOMAIN f :
        /\ IsUnder(source_root, p)
        /\ ~IsHidden(p.name)
        /\ category = "all" \/ ExtCategory(Lower(p.name.ext)) = category}

\* rglob yields the files in directory order, which the file system
\* chooses; any order of the scanned files can be the item list.
ScanOrders(f, source_root, category) ==
    LET S == Scanned(f, source_root, category)
    IN {s \in [1..Cardinality(S) -> S] : \A i, j \in DOMAIN s : i # j => s[i] # s[j]}

Scan(order) == [i \in DOMAIN order |-> Item(order[i])]

----------------------------------------------------------------------------
(* The executor: Pipeline._execute_changes                                 *)

RECURSIVE FreeTrashPath(_, _, _)
FreeTrashPath(f, p, counter) ==
    LET candidate == WithName(p, AddCounter(p.name, 0, counter))
    IN IF ~Exists(f, candidate) THEN candidate ELSE FreeTrashPath(f, p, counter + 1)

TrashPath(f, ctx, original) ==
    LET trash_root == Append(ctx.source_root, ".undo_trash")
        p == IF IsUnder(ctx.source_root, original)
             THEN P(trash_root \o RelDir(ctx.source_root, original), original.name)
             ELSE P(trash_root, original.name)
    IN IF Exists(f, p) THEN FreeTrashPath(f, p, 1) ELSE p

Outcome(f, item, outcome) == [fs |-> f, item |-> item, outcome |-> outcome]

\* One pass of the loop body.  fault: shutil.move raises for this item; a
\* RENAME/MOVE of a missing source raises as well.  Every exception is
\* caught and leaves disk and item as they were.
ExecuteOneIgnoringDryRun(f, item, ctx, fault) ==
    IF item.action = "NONE" THEN Outcome(f, item, "skipped")
    ELSE IF item.action = "DELETE"
    THEN IF ~Exists(f, item.original_path) THEN Outcome(f, item, "skipped")
         ELSE IF fault THEN Outcome(f, item, "failed")
         ELSE LET trash_path == TrashPath(f, ctx, item.original_path)
              IN Outcome(Mv(f, item.original_path, trash_path),
                         [item EXCEPT !.destination_path = trash_path], "done")
    ELSE IF item.destination_path = NoPath THEN Outcome(f, item, "skipped")
    ELSE IF fault \/ ~Exists(f, item.original_path) THEN Outcome(f, item, "failed")
    ELSE Outcome(Mv(f, item.original_path, item.destination_path), item, "done")

ExecuteOne(f, item, ctx, fault) ==
    IF item.action = "NONE" THEN Outcome(f, item, "skipped")
    ELSE IF item.action = "DELETE"
    THEN IF ctx.dry_run THEN Outcome(f, item, "dry")
         ELSE IF ~Exists(f, item.original_path) THEN Outcome(f, item, "skipped")
         ELSE IF fault THEN Outcome(f, item, "failed")
         ELSE LET trash_path == TrashPath(f, ctx, item.original_path)
              IN Outcome(Mv(f, item.original_path, trash_path),
                         [item EXCEPT !.destination_path = trash_path], "done")
    ELSE IF item.destination_path = NoPath THEN Outcome(f, item, "skipped")
    ELSE IF ctx.dry_run THEN Outcome(f, item, "dry")
    ELSE IF fault \/ ~Exists(f, item.original_path) THEN Outcome(f, item, "failed")
    ELSE Outcome(Mv(f, item.original_path, item.destination_path), item, "done")

\* for item in items: ...   The trace lists, per item, the plan that was
\* attempted and its outcome.
RECURSIVE ExecuteLoop(_, _, _, _, _, _)
ExecuteLoop(f, its, ctx, faults, i, trace) ==
    IF i > Len(its)
    THEN [fs |-> f, items |-> its, trace |-> trace]
    ELSE LET r == ExecuteOne(f, its[i], ctx, i \in faults)
         IN ExecuteLoop(r.fs, [its EXCEPT ![i] = r.item], ctx, faults, i + 1,
                        Append(trace, [original |-> its[i].original_path,
                                       new |-> its[i].destination_path,
                                       action |-> its[i].action,
                                       present |-> Exists(f, its[i].original_path),
                                       stayed |-> r.fs = f,
                                       outcome |-> r.outcome]))

ExecuteChanges(f, its, ctx, faults) == ExecuteLoop(f, its, ctx, faults, 1, <<>>)

----------------------------------------------------------------------------
(* Step 1: DeduplicateStep                                                 *)

\* duplicate_pattern "^(.*) \((\d+)\)(\.[^.]+)$" and copy_pattern
\* "^Copy of (.*)(\.[^.]+)$"
IsSuspicious(n) ==
    \/ n.dup > 0 /\ n.sfx = <<>> /\ n.ext # ""
    \/ n.dup = 0 - 1 /\ n.ext # ""

\* the base of the grouping key: the name without marker and extension
DedupBase(n) == IF IsSuspicious(n) THEN [n EXCEPT !.dup = 0, !.ext = ""] ELSE Stem(n)

DedupKey(item) ==
    <<item.current_path.dir, DedupBase(item.current_path.name), item.current_path.name.ext>>

BonusFormat(ext) == IF ext \in {".raw", ".tiff"} THEN 10000 ELSE 0

\* _compute_score; a name that is not suspicious is always base + ext
ComputeScore(f, path, is_suspicious) ==
    IF ~Exists(f, path) THEN 0
    ELSE (IF f[path].exif # 0 THEN f[path].exif ELSE f[path].mtime)
         + f[path].size
         + BonusFormat(Lower(path.name.ext))
         + (IF is_suspicious THEN 0 - 1 ELSE 1000)

\* max(records, key=score): the first record of highest score
FirstMax(G, score) ==
    G[CHOOSE k \in 1..Len(G) :
         /\ \A j \in 1..Len(G) : score[G[j]] <= score[G[k]]
         /\ \A j \in 1..(k - 1) : score[G[j]] < score[G[k]]]

DedupGroupBySizeOnly(f, its, G, mode) ==
    LET members == {G[k] : k \in 1..Len(G)}
        path(i) == its[i].current_path
        score == [i \in members |->
                    ComputeScore(f, path(i), IsSuspicious(path(i).name))]
        verify == mode = "smart"
                  \/ (mode = "safe" /\ \E i \in members : IsSuspicious(path(i).name))
        cluster(i) == SelectSeq(G, LAMBDA j :
                          /\ Exists(f, path(i)) /\ Exists(f, path(j))
                          /\ f[path(j)].size = f[path(i)].size)
        deleted == {i \in members : Len(cluster(i)) > 1 /\ FirstMax(cluster(i), score) # i}
        marked == [i \in members |-> IF i \in deleted THEN mark_delete(its[i]) ELSE its[i]]
        survivors == SelectSeq(G, LAMBDA j : marked[j].action # "DELETE")
        canonical == [DedupBase(path(G[1]).name) EXCEPT !.ext = path(G[1]).name.ext]
    IN IF ~verify THEN [i \in members |-> its[i]]
       ELSE IF deleted # {} /\ survivors # <<>>
                 /\ path(FirstMax(survivors, score)).name # canonical
            THEN [marked EXCEPT ![FirstMax(survivors, score)] = mark_rename(@, canonical)]
            ELSE marked

\* The items of one (folder, base, extension) group after the group's
\* pass: clusters of equal size and hash, every member but the winner
\* marked DELETE, the best survivor renamed to the canonical name.
DedupGroup(f, its, G, mode) ==
    LET members == {G[k] : k \in 1..Len(G)}
        path(i) == its[i].current_path
        score == [i \in members |->
                    ComputeScore(f, path(i), IsSuspicious(path(i).name))]
        verify == mode = "smart"
                  \/ (mode = "safe" /\ \E i \in members : IsSuspicious(path(i).name))
        cluster(i) == SelectSeq(G, LAMBDA j :
                          /\ Exists(f, path(i)) /\ Exists(f, path(j))
                          /\ f[path(j)].size = f[path(i)].size
                          /\ f[path(j)].content = f[path(i)].content)
        deleted == {i \in members : Len(cluster(i)) > 1 /\ FirstMax(cluster(i), score) # i}
        marked == [i \in members |-> IF i \in deleted THEN mark_delete(its[i]) ELSE its[i]]
        survivors == SelectSeq(G, LAMBDA j : marked[j].action # "DELETE")
        canonical == [DedupBase(path(G[1]).name) EXCEPT !.ext = path(G[1]).name.ext]
    IN IF ~verify THEN [i \in members |-> its[i]]
       ELSE IF deleted # {} /\ survivors # <<>>
                 /\ path(FirstMax(survivors, score)).name # canonical
            THEN [marked EXCEPT ![FirstMax(survivors, score)] = mark_rename(@, canonical)]
            ELSE marked

\* grouped[key]: the positions of the items of the group item i belongs to
DedupGroupOf(its, i) ==
    SelectSeq(Idx(Len(its)), LAMBDA j : DedupKey(its[j]) = DedupKey(its[i]))

\* result_items: the groups one after the other, in dict order
RECURSIVE DedupGroups(_, _, _, _, _)
DedupGroups(f, its, mode, firsts, k) ==
    IF k > Len(firsts) THEN <<>>
    ELSE LET G == DedupGroupOf(its, firsts[k])
             g == DedupGroup(f, its, G, mode)
         IN [j \in 1..Len(G) |-> g[G[j]]] \o DedupGroups(f, its, mode, firsts, k + 1)

DeduplicateProcess(f, its, ctx) ==
    LET mode == IF ctx.config.mode \in {"safe", "smart"} THEN ctx.config.mode ELSE "safe"
        firsts == SelectSeq(Idx(Len(its)), LAMBDA i :
                      \A j \in 1..(i - 1) : DedupKey(its[j]) # DedupKey(its[i]))
    IN [fs |-> f, items |-> DedupGroups(f, its, mode, firsts, 1)]

----------------------------------------------------------------------------
(* Step 3.2: StandardizeStep                                               *)

T1993 == 742452744      \* 1993-07-12 04:52:24
T2024 == 1716211800     \* 2024-05-20 13:30:00

StampFolder == "2024-05-20 1-30-00PM"

\* _parse_folder_name: strptime with "%Y-%m-%d %I-%M-%S%p",
\* "%Y-%m-%d_%H-%M-%S", "%Y-%m-%d %H-%M-%S"; 0 is None
ParseFolderName(name) == IF name = StampFolder THEN T2024 ELSE 0

\* _parse_filename_timestamp: the timestamp found in the file name; 0 is None
ParseFilenameTimestamp(n) == IF HasTs(n) THEN n.ts.dt ELSE 0

\* Order of the file names as strings, for names of the same shape:
\* digits sort before letters, " " before "." before "_".
TextRank(s) ==
    CHOOSE k \in 1..11 :
        <<"", ".DS_Store", ".JPEG", ".JPG", ".jpeg", ".jpg", ".txt", "a", "p", "q", "r">>[k] = s

NameKey(n) ==
    <<IF HasTs(n) THEN 0 ELSE 1, n.ts.dt, n.ts.us + 1, TextRank(n.base),
      IF n.dup > 0 THEN 0 ELSE IF n.sfx = <<>> THEN 1 ELSE 2,
      n.dup, Len(n.sfx), TextRank(n.ext)>>

KeyLess(a, b) == \E i \in 1..Len(a) : a[i] < b[i] /\ \A j \in 1..(i - 1) : a[j] = b[j]

\* group_items.sort(key=lambda x: x.current_path.name): stable
RECURSIVE SortByName(_, _)
SortByName(its, G) ==
    IF G = <<>> THEN <<>>
    ELSE LET key(k) == NameKey(its[G[k]].current_path.name)
             m == CHOOSE k \in 1..Len(G) :
                     /\ \A j \in 1..Len(G) : ~KeyLess(key(j), key(k))
                     /\ \A j \in 1..(k - 1) : KeyLess(key(k), key(j))
         IN <<G[m]>> \o SortByName(its, SubSeq(G, 1, m - 1) \o SubSeq(G, m + 1, Len(G)))

\* folder_groups[parent]: the items of the folder of item i, DELETE skipped
StdGroupOf(its, i) ==
    SelectSeq(Idx(Len(its)), LAMBDA j :
        its[j].action # "DELETE" /\ its[j].current_path.dir = its[i].current_path.dir)

\* while new_path.exists() and new_path != file_path: try the next counter
RECURSIVE StdFreePath(_, _, _, _)
StdFreePath(f, first, file_path, counter) ==
    LET candidate == WithName(first, AddCounter(first.name, 0, counter))
    IN IF Exists(f, candidate) /\ candidate # file_path
       THEN StdFreePath(f, first, file_path, counter + 1)
       ELSE candidate

\* os.utime(file_path, (ts, ts))
SetFilesystemTime(f, p, dt) == IF Exists(f, p) THEN [f EXCEPT ![p].mtime = dt] ELSE f

\* The body of "for index, item in enumerate(group_items)": k = index + 1.
\* fault: shutil.move raises OSError (as it does for a missing file).
\* exiftool is taken as not installed.
StdFile(f, item, ctx, folder, dt, k, fault) ==
    LET file_path == item.current_path
        dt_source == IF dt # 0 THEN dt ELSE ParseFilenameTimestamp(file_path.name)
        new_filename == [ts |-> FormatTs(ctx.config, dt_source, k), base |-> "",
                         dup |-> 0, sfx |-> <<>>, ext |-> file_path.name.ext]
        parent == SubSeq(folder, 1, Len(folder) - 1)
        dest_dir == IF IsUnderDir(ctx.source_root, parent) THEN parent ELSE ctx.source_root
        first == P(dest_dir, new_filename)
        new_path == IF Exists(f, first) /\ first # file_path
                    THEN StdFreePath(f, first, file_path, 1)
                    ELSE first
    IN IF dt_source = 0 THEN [fs |-> f, item |-> item]
       ELSE IF ctx.dry_run
       THEN [fs |-> f, item |-> [item EXCEPT !.destination_path = new_path]]
       ELSE IF fault \/ ~Exists(f, file_path) THEN [fs |-> f, item |-> item]
       ELSE [fs |-> SetFilesystemTime(Mv(f, file_path, new_path), new_path, dt_source),
             item |-> [item EXCEPT !.current_path = new_path, !.action = "MOVE",
                                   !.destination_path = new_path,
                                   !.original_path = new_path]]

\* the files of one folder, in sorted order, from position k on
RECURSIVE StdFolderLoop(_, _, _, _, _, _, _, _)
StdFolderLoop(f, its, ctx, folder, dt, G, k, faults) ==
    IF k > Len(G) THEN [fs |-> f, items |-> its]
    ELSE LET r == StdFile(f, its[G[k]], ctx, folder, dt, k, G[k] \in faults)
         IN StdFolderLoop(r.fs, [its EXCEPT ![G[k]] = r.item], ctx, folder, dt, G, k + 1, faults)

\* "for folder, group_items in folder_groups.items()": the folders were
\* fixed before the loop (firsts: the first item of each), the items change
\* as the loop goes.  A folder is standardized when its name (or, with the
\* fallback enabled, each file name) carries a timestamp; otherwise every
\* item of the folder is given a destination_path.
RECURSIVE StdFolders(_, _, _, _, _, _, _)
StdFolders(f, its0, its, ctx, firsts, k, faults) ==
    IF k > Len(firsts) THEN [fs |-> f, items |-> its]
    ELSE LET folder == its0[firsts[k]].current_path.dir
             G == StdGroupOf(its0, firsts[k])
             dt == IF folder = <<>> THEN 0 ELSE ParseFolderName(folder[Len(folder)])
             members == {G[j] : j \in 1..Len(G)}
             r == IF dt = 0 /\ ~ctx.config.use_filename_fallback
                  THEN [fs |-> f,
                        items |-> [j \in 1..Len(its) |->
                                     IF j \in members /\ its[j].destination_path = NoPath
                                     THEN [its[j] EXCEPT !.destination_path = its[j].current_path]
                                     ELSE its[j]]]
                  ELSE StdFolderLoop(f, its, ctx, folder, dt, SortByName(its0, G), 1, faults)
         IN StdFolders(r.fs, its0, r.items, ctx, firsts, k + 1, faults)

StandardizeProcess(f, its, ctx, faults) ==
    LET firsts == SelectSeq(Idx(Len(its)), LAMBDA i :
                      /\ its[i].action # "DELETE"
                      /\ \A j \in 1..(i - 1) :
                            its[j].action = "DELETE"
                            \/ its[j].current_path.dir # its[i].current_path.dir)
    IN StdFolders(f, its, its, ctx, firsts, 1, faults)

----------------------------------------------------------------------------
(* Step 3: FilenameStep                                                    *)

\* _extract_from_filename: a time without AM/PM is read as 24-hour, but 12
\* o'clock becomes 0 when the 12-hour clock is configured.
ExtractFromFilename(ts, cfg) ==
    IF ~ts.h12 /\ cfg.hour_format_12 /\ HourOf(ts.dt) = 12
    THEN ts.dt - 12 * 3600
    ELSE ts.dt

\* _build_timestamp: EXIF, then the file name, then mtime, then now
BuildTimestamp(f, name, data_source_path, ctx) ==
    IF Exists(f, data_source_path) /\ f[data_source_path].exif # 0
    THEN FormatTs(ctx.config, f[data_source_path].exif, 0)
    ELSE IF HasTs(name)
    THEN FormatTsNoMicroseconds(ctx.config, ExtractFromFilename(name.ts, ctx.config))
    ELSE IF Exists(f, data_source_path)
    THEN FormatTs(ctx.config, f[data_source_path].mtime, 0)
    ELSE FormatTs(ctx.config, ctx.now, 0)

RECURSIVE PrefixFree(_, _, _, _, _)
PrefixFree(f, parent, named, reserved, counter) ==
    LET new_name == AddCounter(named, 0, counter)
    IN IF Exists(f, P(parent, new_name)) \/ LowerName(new_name) \in reserved
       THEN PrefixFree(f, parent, named, reserved, counter + 1)
       ELSE new_name

\* _apply_prefix.  "reserved = reserved or set()" rebinds an empty set to a
\* fresh one, so a name is only added to a set that is already non-empty.
ApplyPrefix(f, current_path, data_source_path, ctx, reserved) ==
    LET name == current_path.name
        mode == ctx.config.timeline_mode
        named == [name EXCEPT !.ts = BuildTimestamp(f, name, data_source_path, ctx)]
        new_name == IF Exists(f, P(current_path.dir, named)) \/ LowerName(named) \in reserved
                    THEN PrefixFree(f, current_path.dir, named, reserved, 2)
                    ELSE named
    IN IF mode = "off" \/ (mode = "timeline_plus" /\ HasTs(name))
       THEN [name |-> name, reserved |-> reserved]
       ELSE [name |-> new_name,
             reserved |-> IF reserved = {} THEN {} ELSE reserved \cup {LowerName(new_name)}]

\* ts_cache[id(item)]: the timestamp without "_%f" and the lower-cased suffix
TimelineKey(f, item, ctx) ==
    <<[BuildTimestamp(f, item.current_path.name, item.original_path, ctx)
          EXCEPT !.us = 0 - 1],
      Lower(item.current_path.name.ext)>>

\* ts_counts[key]
TimelineCount(f, its, ctx, key) ==
    Cardinality({i \in 1..Len(its) :
                    its[i].action # "DELETE" /\ TimelineKey(f, its[i], ctx) = key})

TimelineName(ts, ext) == [ts |-> ts, base |-> "", dup |-> 0, sfx |-> <<>>, ext |-> ext]

RECURSIVE TimelineFree(_, _, _, _, _)
TimelineFree(f, current_path, key, reserved, counter) ==
    LET new_name == TimelineName([key[1] EXCEPT !.us = counter], current_path.name.ext)
        test_path == WithName(current_path, new_name)
    IN IF (Exists(f, test_path) /\ test_path # current_path) \/ LowerName(new_name) \in reserved
       THEN TimelineFree(f, current_path, key, reserved, counter + 1)
       ELSE [name |-> new_name, counter |-> counter]

\* _apply_timeline_only_prefix; counters is ts_counters as a set of
\* <<key, counter>> pairs
TimelineCounter(counters, key) ==
    IF \E c \in counters : c[1] = key THEN (CHOOSE c \in counters : c[1] = key)[2] ELSE 0

ApplyTimelineOnlyPrefix(f, its, item, ctx, reserved, counters) ==
    LET current_path == item.current_path
        key == TimelineKey(f, item, ctx)
        plain == TimelineName(key[1], current_path.name.ext)
        test_path == WithName(current_path, plain)
        taken == (Exists(f, test_path) /\ test_path # current_path)
                 \/ LowerName(plain) \in reserved
        r == TimelineFree(f, current_path, key, reserved, TimelineCounter(counters, key) + 1)
    IN IF TimelineCount(f, its, ctx, key) <= 1 /\ ~taken
       THEN [name |-> plain, reserved |-> reserved \cup {LowerName(plain)},
             counters |-> counters]
       ELSE [name |-> r.name, reserved |-> reserved \cup {LowerName(r.name)},
             counters |-> {c \in counters : c[1] # key} \cup {<<key, r.counter>>}]

\* UNIFORM_MAPPING, for the extensions that occur
UniformMapping(ext) ==
    CASE ext \in {".jpeg", ".jpg", ".png", ".raw"} -> ".jpg"
      [] ext = ".tiff" -> ".tif"
      [] ext = ".mov" -> ".mp4"
      [] OTHER -> ext

\* _clean_extension: lower-case the final extension; a name without
\* extension keeps none (no MIME detection available)
CleanExtension(n, cfg) ==
    IF n.ext # "" /\ cfg.clean_extensions THEN [n EXCEPT !.ext = Lower(@)] ELSE n

\* _apply_uniform
ApplyUniform(n, cfg) ==
    [n EXCEPT !.ext = IF cfg.uniform_extensions THEN UniformMapping(Lower(@)) ELSE Lower(@)]

\* _resolve_collision
RECURSIVE ResolveFree(_, _, _)
ResolveFree(n, seen, counter) ==
    LET candidate == AddCounter(n, 6, counter)
    IN IF LowerName(candidate) \notin seen THEN candidate
       ELSE ResolveFree(n, seen, counter + 1)

\* a resolver that returns every name unchanged
ResolveCollisionKeepingName(n, seen) == n

ResolveCollision(n, seen) ==
    IF LowerName(n) \notin seen THEN n ELSE ResolveFree(n, seen, 1)

\* _apply_extension
ApplyExtension(n, cfg, seen) ==
    LET final_name == ResolveCollision(ApplyUniform(CleanExtension(n, cfg), cfg), seen)
    IN [name |-> final_name, seen |-> seen \cup {LowerName(final_name)}]

\* The texts a configuration appends to a body; an appended text is the
\* suffix part <<-1, k>>, "_" followed by RenameTexts[k].
RenameTexts == <<"x", "y">>

TextNo(text) == CHOOSE k \in 1..Len(RenameTexts) : RenameTexts[k] = text

\* _split_prefix_body: the first PREFIX_PATTERN matches a name that starts
\* with a timestamp; the prefix is the date and time, the body what follows
\* (the "_%f" field included).  The other patterns need a leading digit or
\* bracket, which no body text here has.
HasPrefix(n) == HasTs(n) /\ n.dup # 0 - 1

BodyEmpty(n) ==
    /\ n.base = "" /\ n.dup = 0 /\ n.sfx = <<>>
    /\ (HasPrefix(n) => n.ts.us = 0 - 1)

\* body = REPLACE_BODYNAME
ReplaceBody(n, text) ==
    IF text = "" THEN n
    ELSE [n EXCEPT !.ts = IF HasPrefix(n) THEN [@ EXCEPT !.us = 0 - 1] ELSE NoTs,
                   !.base = text, !.dup = 0, !.sfx = <<>>]

\* body = f"{body}{SEPARATOR}{text}" if body else text
AppendText(n, text) ==
    IF text = "" THEN n
    ELSE IF BodyEmpty(n) THEN [n EXCEPT !.base = text]
    ELSE [n EXCEPT !.sfx = Append(@, <<0 - 1, TextNo(text)>>)]

RECURSIVE BodynameFree(_, _, _, _, _)
BodynameFree(f, file_path, base_final, existing_names, counter) ==
    LET final_name == IF counter = 0 THEN base_final ELSE AddCounter(base_final, 0, counter)
        taken == \/ final_name \in existing_names
                 \/ /\ Exists(f, WithName(file_path, final_name))
                    /\ WithName(file_path, final_name) # file_path
    IN IF taken THEN BodynameFree(f, file_path, base_final, existing_names, counter + 1)
       ELSE final_name

\* _apply_bodyname
ApplyBodyname(f, file_path, cfg, existing_names) ==
    LET RENAME_ACTIVE == cfg.replace_bodyname # "" \/ cfg.append_first_text # ""
                         \/ cfg.append_second_text # ""
        body == AppendText(AppendText(ReplaceBody(file_path.name, cfg.replace_bodyname),
                                      cfg.append_first_text),
                           cfg.append_second_text)
        final_name == BodynameFree(f, file_path, body, existing_names, 0)
    IN IF ~RENAME_ACTIVE
       THEN [name |-> file_path.name, existing |-> existing_names]
       ELSE [name |-> final_name, existing |-> existing_names \cup {final_name}]

\* The loop of process from item i on
RECURSIVE FilenameLoop(_, _, _, _, _, _, _, _, _)
FilenameLoop(f, its0, its, ctx, i, reserved, counters, existing, seen) ==
    IF i > Len(its) THEN its
    ELSE IF its[i].action = "DELETE"
    THEN FilenameLoop(f, its0, its, ctx, i + 1, reserved, counters, existing, seen)
    ELSE LET item == its[i]
             pre == IF ctx.config.timeline_mode = "timeline_only"
                    THEN ApplyTimelineOnlyPrefix(f, its0, item, ctx, reserved, counters)
                    ELSE LET a == ApplyPrefix(f, item.current_path, item.original_path,
                                              ctx, reserved)
                         IN [name |-> a.name, reserved |-> a.reserved,
                             counters |-> counters]
             body == ApplyBodyname(f, WithName(item.current_path, pre.name), ctx.config,
                                   existing)
             ext == ApplyExtension(body.name, ctx.config, seen)
             new_item == IF ext.name # item.current_path.name
                         THEN mark_rename(item, ext.name)
                         ELSE item
         IN FilenameLoop(f, its0, [its EXCEPT ![i] = new_item], ctx, i + 1,
                         pre.reserved, pre.counters, body.existing, ext.seen)

FilenameProcess(f, its, ctx) ==
    [fs |-> f, items |-> FilenameLoop(f, its, its, ctx, 1, {}, {}, {}, {})]

----------------------------------------------------------------------------
(* Step 5: GroupStep                                                       *)

\* _get_exif_datetime, else _get_fs_datetime (st_birthtime or st_ctime,
\* st_mtime when that is 0); 0 is None
GroupFileDate(f, path) ==
    IF ~Exists(f, path) THEN 0
    ELSE IF f[path].exif # 0 THEN f[path].exif
    ELSE IF f[path].ctime > 0 THEN f[path].ctime
    ELSE f[path].mtime

\* a group step that does not skip the items marked DELETE
GroupOneMovingDeleted(f, item, ctx) ==
    LET p == item.current_path
        dt == IF ctx.config.prioritize_filename /\ HasTs(p.name)
              THEN p.name.ts.dt
              ELSE GroupFileDate(f, item.original_path)
        new_folder == IF ctx.config.structure = "year"
                      THEN ctx.source_root \o <<YearDir(dt)>>
                      ELSE ctx.source_root \o <<YearDir(dt), MonthDir(dt)>>
    IN IF ctx.config.structure = "flat" \/ dt = 0
       THEN item
       ELSE mark_move(item, new_folder)

GroupOne(f, item, ctx) ==
    LET p == item.current_path
        dt == IF ctx.config.prioritize_filename /\ HasTs(p.name)
              THEN p.name.ts.dt
              ELSE GroupFileDate(f, item.original_path)
        new_folder == IF ctx.config.structure = "year"
                      THEN ctx.source_root \o <<YearDir(dt)>>
                      ELSE ctx.source_root \o <<YearDir(dt), MonthDir(dt)>>
    IN IF item.action = "DELETE" \/ ctx.config.structure = "flat" \/ dt = 0
       THEN item
       ELSE mark_move(item, new_folder)

GroupProcess(f, its, ctx) ==
    [fs |-> f, items |-> [i \in 1..Len(its) |-> GroupOne(f, its[i], ctx)]]

----------------------------------------------------------------------------
(* Step 6: TransferStep                                                    *)

RECURSIVE TransferFree(_, _, _, _)
TransferFree(f, new_path, current_path, counter) ==
    LET dest_file == WithName(new_path, AddCounter(new_path.name, 0, counter))
    IN IF Exists(f, dest_file) /\ dest_file # current_path
       THEN TransferFree(f, new_path, current_path, counter + 1)
       ELSE dest_file

\* a transfer that drops the relative folder and puts every file directly
\* into target_root
TransferOneFlat(f, item, ctx) ==
    LET path_to_transfer == IF item.destination_path # NoPath
                            THEN item.destination_path
                            ELSE item.current_path
        based == IF IsUnder(ctx.source_root, path_to_transfer)
                 THEN path_to_transfer
                 ELSE item.current_path
        new_path == P(ctx.target_root, based.name)
        dest_file == IF ~ctx.config.overwrite
                        /\ Exists(f, new_path) /\ new_path # item.current_path
                     THEN TransferFree(f, new_path, item.current_path, 1)
                     ELSE new_path
    IN IF item.action = "DELETE" \/ ~IsUnder(ctx.source_root, based) THEN item
       ELSE IF dest_file.name # item.current_path.name
       THEN [item EXCEPT !.action = "MOVE", !.destination_path = dest_file]
       ELSE mark_move(item, dest_file.dir)

TransferOne(f, item, ctx) ==
    LET path_to_transfer == IF item.destination_path # NoPath
                            THEN item.destination_path
                            ELSE item.current_path
        based == IF IsUnder(ctx.source_root, path_to_transfer)
                 THEN path_to_transfer
                 ELSE item.current_path
        new_path == P(ctx.target_root \o RelDir(ctx.source_root, based), based.name)
        dest_file == IF ~ctx.config.overwrite
                        /\ Exists(f, new_path) /\ new_path # item.current_path
                     THEN TransferFree(f, new_path, item.current_path, 1)
                     ELSE new_path
    IN IF item.action = "DELETE" \/ ~IsUnder(ctx.source_root, based) THEN item
       ELSE IF dest_file.name # item.current_path.name
       THEN [item EXCEPT !.action = "MOVE", !.destination_path = dest_file]
       ELSE mark_move(item, dest_file.dir)

TransferProcess(f, its, ctx) ==
    [fs |-> f, items |-> [i \in 1..Len(its) |-> TransferOne(f, its[i], ctx)]]

\* TransferStep.cleanup: removes empty folders (which hold no file) and,
\* with cleanup_hidden_files, the hidden and junk files below source_root
TransferCleanup(f, ctx) ==
    IF ctx.config.cleanup_hidden_files
    THEN [p \in {q \in DOMAIN f : ~(IsUnder(ctx.source_root, q) /\ IsHidden(q.name))} |-> f[p]]
    ELSE f

----------------------------------------------------------------------------
(* Steps by id: STEP_CLASS_MAP                                             *)

Steps == {"standardize", "deduplicate", "filename", "group", "transfer"}

\* step.process(context, items); faults: the items whose move inside
\* StandardizeStep.process raises
Process(step, f, its, ctx, faults) ==
    CASE step = "standardize" -> StandardizeProcess(f, its, ctx, faults)
      [] step = "deduplicate" -> DeduplicateProcess(f, its, ctx)
      [] step = "filename" -> FilenameProcess(f, its, ctx)
      [] step = "group" -> GroupProcess(f, its, ctx)
      [] step = "transfer" -> TransferProcess(f, its, ctx)

\* step.cleanup(context): Step.cleanup is a no-op, TransferStep overrides it
Cleanup(step, f, ctx) == IF step = "transfer" THEN TransferCleanup(f, ctx) ELSE f

----------------------------------------------------------------------------
(* Iterative mode: run_step_logic                                          *)

\* item.action = NONE, item.destination_path = None for reused items
ResetItems(its) ==
    [i \in 1..Len(its) |-> [its[i] EXCEPT !.action = "NONE", !.destination_path = NoPath]]

ChangesOfItems(sel) ==
    [i \in 1..Len(sel) |->
        Change(sel[i].original_path, sel[i].destination_path, sel[i].action)]

\* the RENAME/MOVE records, captured before executing
UndoChangesBefore(its) ==
    ChangesOfItems(SelectSeq(its, LAMBDA item :
        item.action \in {"RENAME", "MOVE"} /\ item.destination_path # NoPath))

\* the DELETE records, captured after executing (the trash path is set
\* during execution)
UndoChangesAfter(its) ==
    ChangesOfItems(SelectSeq(its, LAMBDA item :
        item.action = "DELETE" /\ item.destination_path # NoPath))

\* updated_items: deleted items dropped, renamed and moved items rebased
UpdatedItems(its) ==
    LET kept == SelectSeq(its, LAMBDA item : item.action # "DELETE")
    IN [i \in 1..Len(kept) |->
          IF kept[i].action \in {"RENAME", "MOVE"} /\ kept[i].destination_path # NoPath
          THEN [kept[i] EXCEPT !.original_path = kept[i].destination_path,
                               !.current_path = kept[i].destination_path]
          ELSE kept[i]]

Failed(trace) == {trace[i] : i \in {j \in 1..Len(trace) : trace[j].outcome = "failed"}}

\* shutil.move raises for a file the environment keeps locked (a file of
\* locked content): inside process it moves item.current_path, inside the
\* executor item.original_path.
ProcessFaults(f, its, locked) ==
    {i \in 1..Len(its) : /\ Exists(f, its[i].current_path)
                         /\ f[its[i].current_path].content \in locked}

ExecuteFaults(f, its, locked) ==
    {i \in 1..Len(its) : /\ Exists(f, its[i].original_path)
                         /\ f[its[i].original_path].content \in locked}

\* run_step_logic from "4. Process" on, up to the save: its are the scanned
\* or the reused (and reset) items.
\* planned: what step.process returned; ex: what _execute_changes left
RunStepReturn(step, ctx, planned, ex) ==
    IF ctx.dry_run
    THEN [fs |-> planned.fs, items |-> planned.items, undo_changes |-> <<>>,
          failed |-> {}, cleaned |-> <<>>]
    ELSE [fs |-> Cleanup(step, ex.fs, ctx),
          items |-> UpdatedItems(ex.items),
          undo_changes |-> UndoChangesBefore(planned.items) \o UndoChangesAfter(ex.items),
          failed |-> Failed(ex.trace),
          cleaned |-> <<step>>]

RunStepExecute(step, ctx, planned, locked) ==
    RunStepReturn(step, ctx, planned,
                  ExecuteChanges(planned.fs, planned.items, ctx,
                                 ExecuteFaults(planned.fs, planned.items, locked)))

RunStepLogic(step, ctx, f, its, locked) ==
    RunStepExecute(step, ctx, Process(step, f, its, ctx, ProcessFaults(f, its, locked)),
                   locked)

----------------------------------------------------------------------------
(* Inputs and run state shared by the specifications                        *)

T2026 == 1793836800     \* 2026-11-04 00:00:00

SourceRoot == <<"src">>
TargetRoot == <<"dst">>

\* PipelineConfig with the defaults of server.py
ServerConfig ==
    [fileCategory |-> "all", mode |-> "", timeline_mode |-> "timeline_plus",
     preset |-> "pcloud", hour_format_12 |-> TRUE, use_filename_fallback |-> FALSE,
     prioritize_filename |-> TRUE, structure |-> "year_month", overwrite |-> FALSE,
     cleanup_hidden_files |-> FALSE, clean_extensions |-> TRUE,
     uniform_extensions |-> TRUE, replace_bodyname |-> "", append_first_text |-> "",
     append_second_text |-> "", target |-> TargetRoot]

\* a configuration with every option but the rename texts changed
OtherConfig ==
    [fileCategory |-> "all", mode |-> "smart", timeline_mode |-> "timeline_only",
     preset |-> "google_photos", hour_format_12 |-> FALSE, use_filename_fallback |-> TRUE,
     prioritize_filename |-> FALSE, structure |-> "year", overwrite |-> TRUE,
     cleanup_hidden_files |-> FALSE, clean_extensions |-> FALSE,
     uniform_extensions |-> FALSE, replace_bodyname |-> "", append_first_text |-> "",
     append_second_text |-> "", target |-> SourceRoot]

Configs == {ServerConfig, OtherConfig}

\* Trees to organize: byte-identical copies and a name that occurs in two
\* folders; a folder named by a timestamp; a hidden file, a file named by a
\* timestamp and a file whose name is taken in the target.
TreeCopies ==
    (P(<<"src", "A">>, Nm("p", ".jpg")) :> File(1, 10, 0, T1993, T1993)) @@
    (P(<<"src", "A">>, [Nm("p", ".jpg") EXCEPT !.dup = 1])
        :> File(1, 10, 0, T1993 + 2000, T1993 + 2000)) @@
    (P(<<"src", "B">>, Nm("p", ".jpg")) :> File(2, 10, 0, T1993, T1993))

TreeStamped ==
    (P(<<"src", StampFolder>>, Nm("q", ".jpeg")) :> File(3, 10, 0, T2024, T2024)) @@
    (P(<<"src", StampFolder>>, Nm("r", ".JPG")) :> File(4, 12, 0, T2024, T2024))

TreeMixed ==
    (P(<<"src">>, Nm(".DS_Store", "")) :> File(5, 1, 0, T1993, T1993)) @@
    (P(<<"src">>, Nm("a", ".txt")) :> File(6, 5, 0, T1993, T2024)) @@
    (P(<<"src">>, [Nm("", ".jpg") EXCEPT
                      !.ts = [dt |-> T2024, sep |-> "_", h12 |-> FALSE, us |-> 0 - 1]])
        :> File(7, 10, T1993, T2024, T2024)) @@
    (P(<<"dst">>, Nm("a", ".txt")) :> File(8, 5, 0, T1993, T1993))

Trees == {TreeCopies, TreeStamped, TreeMixed}

IdleRun ==
    [mode |-> "idle", phase |-> "done", dry |-> FALSE, steps |-> <<>>,
     fs0 |-> <<>>, ops0 |-> {}, chs0 |-> {}, undo |-> <<>>, opid |-> 0,
     failed |-> {}, cleanups |-> <<>>]

\* The environment of a behaviour: the requests it may still make, the
\* contents of the files it keeps locked, and the configuration it sends.
Budget(undos, work, locked, config) ==
    [undos |-> undos, work |-> work, locked |-> locked, config |-> config]

NoBudget == Budget(0, 0, {}, ServerConfig)

----------------------------------------------------------------------------
(* The undo log driven through its API (as the tests drive it)             *)

UDir == <<"src">>
UA == P(UDir, Nm("a", ".txt"))
UB == P(UDir, Nm("b", ".txt"))
UC == P(UDir, Nm("c", ".txt"))
UT == P(<<"src", ".undo_trash">>, Nm("a", ".txt"))
UPaths == {UA, UB, UC, UT}

\* Change lists a caller may hand to save_operation: the empty operation,
\* a single move, a rename chain, and a rename and a delete of two files.
UChangeLists ==
    {<<>>,
     <<Change(UA, UB, "MOVE")>>,
     <<Change(UA, UB, "MOVE"), Change(UB, UC, "RENAME")>>,
     <<Change(UB, UC, "RENAME"), Change(UA, UT, "DELETE")>>}

FaultSets(opid) ==
    {{}} \cup {{i} : i \in 1..Cardinality({c \in changes : c.operation_id = opid})}

LatestId == IF operations = {} THEN 0 ELSE LatestOp(operations).operation_id

\* A file keeps the identity it had at its initial path.
UFile(p) ==
    [content |-> CHOOSE k \in 1..4 : <<UA, UB, UC, UT>>[k] = p,
     size |-> 1, exif |-> 0, mtime |-> 0, ctime |-> 0]

InitUndo ==
    /\ fs \in {[p \in S |-> UFile(p)] : S \in SUBSET UPaths}
    /\ operations = {}
    /\ changes = {}
    /\ opSeq = 0
    /\ chSeq = 0
    /\ clock = 0
    /\ last = NoLast
    /\ items = <<>>
    /\ run = IdleRun
    /\ env = NoBudget

ApiSave ==
    /\ opSeq < MaxSaves
    /\ \E opid \in OpIds \cup {opSeq + 1} :
       \E chgs \in (IF opid \in OpIds THEN {<<>>} ELSE UChangeLists) :
          SaveOperation(opid, chgs)
    /\ UNCHANGED <<fs, clock, items, run, env>>

ApiUndoLast ==
    /\ \E faults \in FaultSets(LatestId) : UndoLastOperation(faults)
    /\ UNCHANGED <<opSeq, chSeq, clock, items, run, env>>

ApiUndoOperation ==
    /\ \E opid \in OpIds \cup {opSeq + 1} :
       \E require_latest \in BOOLEAN :
       \E faults \in FaultSets(opid) :
          UndoOperation(opid, require_latest, faults)
    /\ UNCHANGED <<opSeq, chSeq, clock, items, run, env>>

ApiClear ==
    /\ operations # {}
    /\ ClearHistory
    /\ UNCHANGED <<fs, opSeq, chSeq, clock, items, run, env>>

NextUndo == ApiSave \/ ApiUndoLast \/ ApiUndoOperation \/ ApiClear

SpecUndo == InitUndo /\ [][NextUndo]_vars

----------------------------------------------------------------------------
(* Retention: more saves than max_history, with the clock advancing        *)

InitRetention ==
    /\ fs = [p \in {UB} |-> UFile(UA)]
    /\ operations = {}
    /\ changes = {}
    /\ opSeq = 0
    /\ chSeq = 0
    /\ clock = 0
    /\ last = NoLast
    /\ items = <<>>
    /\ run = IdleRun
    /\ env = [NoBudget EXCEPT !.undos = MaxEvictUndos]

\* save_operation with a fresh operation_id (a uuid suffix in server.py)
RetSave ==
    /\ opSeq < MaxEvictSaves
    /\ SaveOperation(opSeq + 1, <<Change(UA, UB, "MOVE")>>)
    /\ UNCHANGED <<fs, clock, items, run, env>>

RetUndoLast ==
    /\ env.undos > 0
    /\ UndoLastOperation({})
    /\ env' = [env EXCEPT !.undos = @ - 1]
    /\ UNCHANGED <<opSeq, chSeq, clock, items, run>>

RetUndoOperation ==
    /\ env.undos > 0
    /\ \E opid \in OpIds : UndoOperation(opid, FALSE, {})
    /\ env' = [env EXCEPT !.undos = @ - 1]
    /\ UNCHANGED <<opSeq, chSeq, clock, items, run>>

RetClear ==
    /\ env.undos > 0
    /\ operations # {}
    /\ ClearHistory
    /\ env' = [env EXCEPT !.undos = @ - 1]
    /\ UNCHANGED <<fs, opSeq, chSeq, clock, items, run>>

\* a second passes
Tick ==
    /\ clock < MaxClock
    /\ clock' = clock + 1
    /\ UNCHANGED <<fs, operations, changes, opSeq, chSeq, last, items, run, env>>

NextRetention == RetSave \/ RetUndoLast \/ RetUndoOperation \/ RetClear \/ Tick

SpecRetention == InitRetention /\ [][NextRetention]_vars

----------------------------------------------------------------------------
(* The organizer: both orchestration modes and the undo endpoints          *)

\* The files a scan of the tree returns: the environment may lock one.
Lockable(f) == {f[p].content : p \in Scanned(f, SourceRoot, "all")}

Init ==
    /\ fs \in Trees
    /\ operations = {}
    /\ changes = {}
    /\ opSeq = 0
    /\ chSeq = 0
    /\ clock = 0
    /\ last = NoLast
    /\ items = <<>>
    /\ run = IdleRun
    /\ \E config \in Configs :
       \E locked \in {{}} \cup {{c} : c \in Lockable(fs)} :
          env = Budget(0, MaxSteps, locked, config)

InFlight == run.phase \in {"running", "planning"}

Ctx(dry_run) == Context(dry_run, SourceRoot, env.config.target, env.config, T2026 + clock)

Store == [operations |-> operations, changes |-> changes,
          opSeq |-> opSeq, chSeq |-> chSeq, saved |-> 0]

SetStore(s) ==
    /\ operations' = s.operations
    /\ changes' = s.changes
    /\ opSeq' = s.opSeq
    /\ chSeq' = s.chSeq

StartRun(mode, phase, dry_run) ==
    [IdleRun EXCEPT !.mode = mode, !.phase = phase, !.dry = dry_run, !.fs0 = fs,
                    !.ops0 = operations, !.chs0 = changes]

RunCalled(opid) == [NoLast EXCEPT !.call = "run", !.savedOp = opid]

\* POST /api/run-step: scan, run_step_logic with record_undo, which saves
\* the step's changes as one operation "<step>_<uuid>"
ApiRunStep ==
    /\ run.mode = "idle"
    /\ \E step \in Steps, dry_run \in BOOLEAN :
       \E order \in ScanOrders(fs, SourceRoot, env.config.fileCategory) :
       \E r \in {RunStepLogic(step, Ctx(dry_run), fs, Scan(order), env.locked)} :
       \E s \in {IF r.undo_changes # <<>>
                 THEN StoreAfterSave(opSeq + 1, r.undo_changes)
                 ELSE Store} :
             /\ fs' = r.fs
             /\ items' = r.items
             /\ SetStore(s)
             /\ run' = [StartRun("step", "done", dry_run) EXCEPT
                           !.steps = <<step>>, !.undo = r.undo_changes, !.opid = s.saved,
                           !.failed = r.failed, !.cleanups = r.cleaned]
             /\ last' = RunCalled(s.saved)
    /\ UNCHANGED <<clock, env>>

\* POST /api/run-all, up to the initial scan
ApiRunAllBegin ==
    /\ run.mode = "idle"
    /\ \E dry_run \in BOOLEAN :
       \E order \in ScanOrders(fs, SourceRoot, env.config.fileCategory) :
          /\ items' = Scan(order)
          /\ run' = StartRun("run_all", "running", dry_run)
    /\ last' = RunCalled(0)
    /\ UNCHANGED <<fs, operations, changes, opSeq, chSeq, clock, env>>

\* one pass of "for step_id in request.steps": run_step_logic on the items
\* of the previous step, record_undo=False; the request's step list is
\* revealed one step at a time
ApiRunAllStep ==
    /\ run.mode = "run_all"
    /\ run.phase = "running"
    /\ env.work > 0
    /\ \E step \in Steps :
       \E r \in {RunStepLogic(step, Ctx(run.dry), fs, ResetItems(items), env.locked)} :
             /\ fs' = r.fs
             /\ items' = r.items
             /\ run' = [run EXCEPT !.steps = Append(@, step),
                                   !.undo = @ \o r.undo_changes,
                                   !.failed = @ \cup r.failed,
                                   !.cleanups = @ \o r.cleaned]
    /\ env' = [env EXCEPT !.work = @ - 1]
    /\ last' = RunCalled(0)
    /\ UNCHANGED <<operations, changes, opSeq, chSeq, clock>>

\* the end of the loop: the combined changes are saved as one operation
\* "summary_<uuid>"
ApiRunAllEnd ==
    /\ run.mode = "run_all"
    /\ run.phase = "running"
    /\ \E s \in {IF ~run.dry /\ run.undo # <<>>
                 THEN StoreAfterSave(opSeq + 1, run.undo)
                 ELSE Store} :
          /\ SetStore(s)
          /\ run' = [run EXCEPT !.phase = "done", !.opid = s.saved]
          /\ last' = RunCalled(s.saved)
    /\ UNCHANGED <<fs, clock, items, env>>

\* Pipeline(context), add_step ..., run(initial_files) on scanned files
BatchBegin ==
    /\ run.mode = "idle"
    /\ \E dry_run \in BOOLEAN :
       \E order \in ScanOrders(fs, SourceRoot, env.config.fileCategory) :
          /\ items' = Scan(order)
          /\ run' = StartRun("batch", "planning", dry_run)
    /\ last' = RunCalled(0)
    /\ UNCHANGED <<fs, operations, changes, opSeq, chSeq, clock, env>>

\* one pass of the planning loop: items = step.process(self.context, items)
BatchPlan ==
    /\ run.mode = "batch"
    /\ run.phase = "planning"
    /\ env.work > 0
    /\ \E step \in Steps :
       \E r \in {Process(step, fs, items, Ctx(run.dry),
                         ProcessFaults(fs, items, env.locked))} :
             /\ fs' = r.fs
             /\ items' = r.items
             /\ run' = [run EXCEPT !.steps = Append(@, step)]
    /\ env' = [env EXCEPT !.work = @ - 1]
    /\ last' = RunCalled(0)
    /\ UNCHANGED <<operations, changes, opSeq, chSeq, clock>>

\* the execution phase: self._execute_changes(items); run returns
BatchExecute ==
    /\ run.mode = "batch"
    /\ run.phase = "planning"
    /\ \E ex \in {ExecuteChanges(fs, items, Ctx(run.dry),
                                  ExecuteFaults(fs, items, env.locked))} :
          /\ fs' = ex.fs
          /\ items' = ex.items
          /\ run' = [run EXCEPT !.phase = "done", !.failed = Failed(ex.trace)]
    /\ last' = RunCalled(0)
    /\ UNCHANGED <<operations, changes, opSeq, chSeq, clock, env>>

\* shutil.move raises for the rows of the operation whose file is locked
UndoFaults(opid) ==
    LET rows == ChangesOf(changes, opid)
    IN {i \in 1..Len(rows) : /\ Exists(fs, rows[i].new_path)
                             /\ fs[rows[i].new_path].content \in env.locked}

\* POST /api/undo
ApiUndo ==
    /\ ~InFlight
    /\ UndoLastOperation(UndoFaults(LatestId))
    /\ UNCHANGED <<opSeq, chSeq, clock, items, run, env>>

\* POST /api/undo/{operation_id}
ApiUndoById ==
    /\ ~InFlight
    /\ \E opid \in OpIds \cup {opSeq + 1} : UndoOperation(opid, TRUE, UndoFaults(opid))
    /\ UNCHANGED <<opSeq, chSeq, clock, items, run, env>>

\* POST /api/undo/clear
ApiUndoClear ==
    /\ ~InFlight
    /\ ClearHistory
    /\ UNCHANGED <<fs, opSeq, chSeq, clock, items, run, env>>

Next ==
    \/ ApiRunStep
    \/ ApiRunAllBegin \/ ApiRunAllStep \/ ApiRunAllEnd
    \/ BatchBegin \/ BatchPlan \/ BatchExecute
    \/ ApiUndo \/ ApiUndoById \/ ApiUndoClear

Spec == Init /\ [][Next]_vars

----------------------------------------------------------------------------
(* Claims about the undo log                                               *)

RowsOfOp(chs, opid) == {c \in chs : c.operation_id = opid}

\* The file system the i-th attempted row left behind.
FsAfter(i) == IF i < Len(last.trace) THEN last.trace[i + 1].on ELSE fs

\* A change is committed on f: its file is at new_path and no longer at
\* original_path.  A list of changes is committed when each change is and
\* the changes are of distinct files (pairwise distinct paths).
Committed(f, c) == c.new_path \in DOMAIN f /\ c.original_path \notin DOMAIN f

BatchCommitted(f, rows) ==
    /\ \A i \in 1..Len(rows) : Committed(f, rows[i])
    /\ \A i, j \in 1..Len(rows) :
          i # j => /\ rows[i].new_path # rows[j].new_path
                   /\ rows[i].original_path # rows[j].original_path

SavedThenUndone ==
    /\ last.call = "undo_last"
    /\ last.afterSave # 0
    /\ last.rows # <<>>
    /\ last.faults = {}
    /\ BatchCommitted(last.fsBefore, last.rows)

\* C2: undo round trip.  When save_operation stored an operation whose
\* changes (RENAME, MOVE, DELETE with its trash path) are committed on disk
\* and undo_last_operation is the next call, and no move raises, then the
\* operation undone is the one saved, every change's file is back at
\* original_path with its content, new_path is gone, and the result reports
\* success.
C2_UndoRoundTrip ==
    SavedThenUndone =>
        /\ last.opid = last.afterSave
        /\ last.success
        /\ \A i \in 1..Len(last.rows) :
              LET c == last.rows[i]
              IN /\ c.original_path \in DOMAIN fs
                 /\ fs[c.original_path] = last.fsBefore[c.new_path]
                 /\ c.new_path \notin DOMAIN fs

C2_Witness ==
    /\ SavedThenUndone
    /\ \E i \in 1..Len(last.rows) : last.rows[i].action = "DELETE"
    /\ \E i \in 1..Len(last.rows) : last.rows[i].action = "RENAME"

\* C3: undo_operation(id, require_latest=True) with an id that is not the
\* most recently saved operation still in the store returns failure and
\* changes neither the file system nor the undo store.
C3_OutOfOrderUndoRefused ==
    (/\ last.call = "undo_operation"
     /\ last.require_latest
     /\ \A o \in last.opsBefore :
           (\A q \in last.opsBefore : q.id <= o.id) => o.operation_id # last.opid)
    => /\ ~last.success
       /\ last.undone_count = 0
       /\ fs = last.fsBefore
       /\ operations = last.opsBefore
       /\ changes = last.chsBefore

\* an older operation, still in the store, one of whose changes could have
\* been reversed
C3_Witness ==
    /\ last.call = "undo_operation"
    /\ last.require_latest
    /\ \E o \in last.opsBefore :
          /\ o.operation_id = last.opid
          /\ \E q \in last.opsBefore : q.id > o.id
    /\ \E c \in RowsOfOp(last.chsBefore, last.opid) : c.new_path \in DOMAIN last.fsBefore
    /\ ~last.success

\* C4: undo_last_operation takes the most recently saved operation still in
\* the store, attempts exactly its change rows, last recorded first, and
\* then removes the operation and its change rows from the store.
C4_UndoLastOrder ==
    (last.call = "undo_last" /\ last.opsBefore # {}) =>
        /\ \E o \in last.opsBefore :
              /\ o.operation_id = last.opid
              /\ \A q \in last.opsBefore : q.id <= o.id
        /\ {last.trace[i].row : i \in 1..Len(last.trace)}
              = RowsOfOp(last.chsBefore, last.opid)
        /\ Len(last.trace) = Cardinality(RowsOfOp(last.chsBefore, last.opid))
        /\ \A i, j \in 1..Len(last.trace) :
              i < j => last.trace[i].row.id > last.trace[j].row.id
        /\ operations = {o \in last.opsBefore : o.operation_id # last.opid}
        /\ changes = last.chsBefore \ RowsOfOp(last.chsBefore, last.opid)

\* a rename chain a -> b -> c of the newest of two operations is unwound
\* from c back to a
C4_Witness ==
    /\ last.call = "undo_last"
    /\ Cardinality(last.opsBefore) = 2
    /\ Len(last.trace) = 2
    /\ last.trace[1].row.original_path = last.trace[2].row.new_path
    /\ last.undone_count = 2
    /\ UA \in DOMAIN fs
    /\ fs[UA] = last.fsBefore[UC]

\* C6: every change of an undone operation is attempted on its own: a
\* change whose new path is missing when its turn comes is counted as
\* failed and leaves the disk alone, a change whose new path exists is
\* reversed (counted as failed only when its move raises), and
\* undone_count + failed_count is the number of changes.
C6_ChangesIndependent ==
    last.touched =>
        /\ Len(last.trace) = Len(last.rows)
        /\ last.undone_count + last.failed_count = Len(last.rows)
        /\ \A i \in 1..Len(last.trace) :
              LET t == last.trace[i]
                  c == t.row
              IN /\ t.row = last.rows[i]
                 /\ c.new_path \notin DOMAIN t.on =>
                       t.outcome = "failed" /\ FsAfter(i) = t.on
                 /\ (c.new_path \in DOMAIN t.on /\ i \notin last.faults) =>
                       /\ t.outcome = "undone"
                       /\ c.original_path \in DOMAIN FsAfter(i)
                       /\ FsAfter(i)[c.original_path] = t.on[c.new_path]
                 /\ (c.new_path \in DOMAIN t.on /\ i \in last.faults) =>
                       t.outcome = "failed" /\ FsAfter(i) = t.on

\* the first change attempted fails on a missing new path, the next one is
\* still reversed
C6_Witness ==
    /\ last.touched
    /\ Len(last.trace) = 2
    /\ last.trace[1].outcome = "failed"
    /\ last.trace[1].row.new_path \notin DOMAIN last.trace[1].on
    /\ last.trace[2].outcome = "undone"
    /\ last.undone_count = 1
    /\ last.failed_count = 1

\* The n rows of ops saved last (rowids grow with every save).
NewestRows(ops, n) ==
    {o \in ops : Cardinality({q \in ops : q.id > o.id}) < n}

\* C5: the store never holds more than max_history operations; a save
\* (with a fresh id) leaves exactly the max_history most recently saved of
\* the operations it found plus its own, so evictions take the oldest
\* first; and no change row is left without its operation.
C5_Retention ==
    /\ Cardinality(operations) <= MAX_HISTORY
    /\ \A c \in changes : c.operation_id \in OpIds
    /\ (last.call = "save" /\ last.savedOp # 0) =>
          /\ \E o \in operations : o.operation_id = last.savedOp
          /\ operations =
                NewestRows(last.opsBefore \cup
                              {o \in operations : o.operation_id = last.savedOp},
                           MAX_HISTORY)
          /\ changes \ last.chsBefore = RowsOfOp(changes, last.savedOp)
          /\ last.chsBefore \ changes =
                {c \in last.chsBefore :
                    c.operation_id \notin {o.operation_id : o \in operations}}

\* a save that evicts, from a store with a gap left by an undo and with
\* creation times that differ
C5_Witness ==
    /\ last.call = "save"
    /\ Cardinality(last.opsBefore) = MAX_HISTORY
    /\ Cardinality(operations) = MAX_HISTORY
    /\ \E o \in last.opsBefore : o \notin operations
    /\ \E o, q \in operations : o.created_at # q.created_at
    /\ \E o, q \in operations : q.id > o.id + 1 /\ \A r \in operations : ~(o.id < r.id /\ r.id < q.id)

----------------------------------------------------------------------------
(* Claims about the organizer                                              *)

\* The paths of the pre-run tree whose file the run took away.
Displaced(before, after) ==
    {p \in DOMAIN before : p \notin DOMAIN after \/ after[p].content # before[p].content}

\* C1: after a run that is not a dry run and saved an operation (a single
\* step, or run-all with its combined operation), during which no move
\* failed, the undo_last_operation that follows puts every file the run
\* renamed, moved or trashed back at the path it had before the run.
C1_UndoRestoresRun ==
    (/\ last.call = "undo_last"
     /\ run.phase = "done"
     /\ ~run.dry
     /\ run.opid # 0
     /\ last.afterSave = run.opid
     /\ last.opid = run.opid
     /\ env.locked = {})
    => \A p \in Displaced(run.fs0, last.fsBefore) :
          p \in DOMAIN fs /\ fs[p].content = run.fs0[p].content

\* C7: when the executor fails to move, rename or trash the file of an
\* item, the file stays where it was and the operation the run saved has
\* no change record of that item.
C7_FailedItemNotRecorded ==
    (/\ last.call = "run"
     /\ run.phase = "done"
     /\ ~run.dry)
    => \A x \in run.failed :
          x.present =>
             /\ x.stayed
             /\ ~\E c \in changes : /\ c.operation_id = run.opid
                                    /\ c.original_path = x.original
                                    /\ c.new_path = x.new

\* C8: in batch mode, when the run is not a dry run, no file has been
\* moved, renamed or deleted while the steps are still planning.
C8_NothingMovedWhilePlanning ==
    (/\ run.mode = "batch"
     /\ run.phase = "planning"
     /\ ~run.dry)
    => /\ DOMAIN fs = DOMAIN run.fs0
       /\ \A p \in DOMAIN fs : fs[p].content = run.fs0[p].content

\* C9: in batch mode, when the run is not a dry run and has returned, the
\* cleanup hook of each step has been invoked exactly once, in the order
\* the steps were added.
C9_CleanupOncePerStep ==
    (/\ run.mode = "batch"
     /\ run.phase = "done"
     /\ ~run.dry)
    => run.cleanups = run.steps

\* C10: during and after a dry run, in either orchestration mode and
\* whatever the steps, the file system and the undo store are as they were
\* when the run began and no cleanup hook has been invoked.
C10_DryRunChangesNothing ==
    (/\ last.call = "run"
     /\ run.dry)
    => /\ fs = run.fs0
       /\ operations = run.ops0
       /\ changes = run.chs0
       /\ run.cleanups = <<>>

\* a dry batch run of two steps has returned, and its executor was handed
\* an item with a planned delete, rename or move of a file that exists
C10_Witness ==
    /\ last.call = "run"
    /\ run.dry
    /\ run.mode = "batch"
    /\ run.phase = "done"
    /\ Len(run.steps) >= 2
    /\ \E i \in 1..Len(items) :
          /\ items[i].action # "NONE"
          /\ Exists(fs, items[i].original_path)
          /\ items[i].action = "DELETE" \/ items[i].destination_path # NoPath

----------------------------------------------------------------------------
(* A step's process called on the items of a fresh scan                    *)

ProcessCalled(step) ==
    [IdleRun EXCEPT !.mode = "process", !.steps = <<step>>, !.fs0 = fs]

InitProcess(trees, configs) ==
    /\ fs \in trees
    /\ operations = {}
    /\ changes = {}
    /\ opSeq = 0
    /\ chSeq = 0
    /\ clock = 0
    /\ last = NoLast
    /\ items = <<>>
    /\ run = IdleRun
    /\ \E config \in configs : env = Budget(0, 0, {}, config)

\* the scanned path an item stands for
ItemAt(its, p) == its[CHOOSE i \in 1..Len(its) : its[i].original_path = p]

----------------------------------------------------------------------------
(* DeduplicateStep.process on one folder                                   *)

DedupDir == <<"src", "A">>

\* p.jpg, p (1).jpg, p (2).jpg and Copy of p.jpg
DedupNames ==
    {[Nm("p", ".jpg") EXCEPT !.dup = d] : d \in {0, 1, 2, 0 - 1}}

\* equal bytes (and times), equal bytes with a later time, other bytes of
\* the same size, other bytes of another size
DedupFiles ==
    {File(1, 10, 0, T1993, T1993), File(1, 10, 0, T1993 + 2000, T1993 + 2000),
     File(2, 10, 0, T1993, T1993), File(3, 12, 0, T1993, T1993)}

DedupTrees ==
    UNION {[{P(DedupDir, n) : n \in S} -> DedupFiles] :
              S \in {T \in SUBSET DedupNames : Cardinality(T) <= MaxDedupFiles}}

DedupConfigs == {ServerConfig, [ServerConfig EXCEPT !.mode = "smart"]}

InitDedup == InitProcess(DedupTrees, DedupConfigs)

DedupCall ==
    /\ run.mode = "idle"
    /\ \E order \in ScanOrders(fs, SourceRoot, "all") :
          items' = DeduplicateProcess(fs, Scan(order), Ctx(FALSE)).items
    /\ run' = ProcessCalled("deduplicate")
    /\ UNCHANGED <<fs, operations, changes, opSeq, chSeq, clock, last, env>>

\* _execute_changes on the planned items (dry_run false)
DedupExecute ==
    /\ run.mode = "process" /\ run.steps = <<"deduplicate">>
    /\ \E ex \in {ExecuteChanges(fs, items, Ctx(FALSE), {})} :
          /\ fs' = ex.fs
          /\ items' = ex.items
    /\ run' = [run EXCEPT !.mode = "executed"]
    /\ UNCHANGED <<operations, changes, opSeq, chSeq, clock, last, env>>

NextDedup == DedupCall \/ DedupExecute

SpecDedup == InitDedup /\ [][NextDedup]_vars

----------------------------------------------------------------------------
(* Claims about DeduplicateStep                                            *)

\* The scanned paths of the duplicate cluster of p: same folder, same base
\* name and extension, same bytes.
ClusterOf(p) ==
    {q \in DOMAIN fs : /\ q.dir = p.dir
                       /\ DedupBase(q.name) = DedupBase(p.name)
                       /\ q.name.ext = p.name.ext
                       /\ fs[q].content = fs[p].content}

Deduplicated == run.mode = "process" /\ run.steps = <<"deduplicate">>

C12_NonClusterUntouched ==
    Deduplicated =>
        \A p \in DOMAIN fs :
           Cardinality(ClusterOf(p)) = 1 =>
              /\ ItemAt(items, p).action = "NONE"
              /\ ItemAt(items, p).current_path = p
              /\ ItemAt(items, p).destination_path = NoPath

----------------------------------------------------------------------------
(* FilenameStep.process on a scanned folder, and a second time on the      *)
(* items of the first run once the executor has applied its renames        *)

\* "2024-05-20_13-30-00.jpg"
StampedName ==
    [Nm("", ".jpg") EXCEPT !.ts = [dt |-> T2024, sep |-> "_", h12 |-> FALSE, us |-> 0 - 1]]

FilenamePaths ==
    {P(<<"src", "A">>, Nm("a", ".jpeg")), P(<<"src", "A">>, Nm("a", ".jpg")),
     P(<<"src", "A">>, Nm("a", ".JPG")), P(<<"src", "A">>, StampedName),
     P(<<"src", "B">>, Nm("a", ".jpg"))}

\* a file dated by its modification time and one dated by EXIF
FilenameFiles == {File(1, 10, 0, T2024, T2024), File(2, 10, T2024, T1993, T1993)}

FilenameTrees ==
    UNION {[S -> FilenameFiles] :
             S \in {T \in SUBSET FilenamePaths : Cardinality(T) <= MaxFilenameFiles}}

\* every timeline mode, preset, body-text setting and extension setting
FilenameConfigs ==
    {[ServerConfig EXCEPT !.timeline_mode = tm, !.preset = ps[1], !.hour_format_12 = ps[2],
                          !.replace_bodyname = body[1], !.append_first_text = body[2],
                          !.append_second_text = body[3],
                          !.clean_extensions = ext[1], !.uniform_extensions = ext[2]] :
        tm \in {"off", "timeline_only", "timeline_plus"},
        ps \in {<<"pcloud", TRUE>>, <<"google_photos", FALSE>>, <<"default", TRUE>>},
        body \in {<<"", "", "">>, <<"x", "", "">>, <<"", "y", "">>, <<"x", "y", "x">>},
        ext \in {<<TRUE, TRUE>>, <<TRUE, FALSE>>, <<FALSE, FALSE>>}}

InitFilename == InitProcess(FilenameTrees, FilenameConfigs)

\* step.process(context, scanner.scan(...))
FilenameCall ==
    /\ run.mode = "idle"
    /\ \E order \in ScanOrders(fs, SourceRoot, "all") :
          items' = FilenameProcess(fs, Scan(order), Ctx(FALSE)).items
    /\ run' = ProcessCalled("filename")
    /\ UNCHANGED <<fs, operations, changes, opSeq, chSeq, clock, last, env>>

\* _execute_changes on the planned items, then the items as run_step_logic
\* returns them
FilenameExecute ==
    /\ run.mode = "process" /\ run.steps = <<"filename">>
    /\ \E ex \in {ExecuteChanges(fs, items, Ctx(FALSE), {})} :
          /\ fs' = ex.fs
          /\ items' = UpdatedItems(ex.items)
    /\ run' = [run EXCEPT !.mode = "executed", !.fs0 = fs']
    /\ UNCHANGED <<operations, changes, opSeq, chSeq, clock, last, env>>

\* step.process on the output of the first run, same configuration
FilenameAgain ==
    /\ run.mode = "executed"
    /\ items' = FilenameProcess(fs, ResetItems(items), Ctx(FALSE)).items
    /\ run' = [run EXCEPT !.mode = "process", !.steps = <<"filename", "filename">>]
    /\ UNCHANGED <<fs, operations, changes, opSeq, chSeq, clock, last, env>>

NextFilename == FilenameCall \/ FilenameExecute \/ FilenameAgain

SpecFilename == InitFilename /\ [][NextFilename]_vars

FilenameProcessed == run.mode = "process" /\ run.steps[1] = "filename"

\* C13: after a FilenameStep.process call no two items that are not marked
\* DELETE have the same resulting path.
C13_NoTwoItemsSamePath ==
    FilenameProcessed =>
        \A i, j \in 1..Len(items) :
            i # j /\ items[i].action # "DELETE" /\ items[j].action # "DELETE"
                => items[i].current_path # items[j].current_path

\* two files of one folder whose names the step maps to the same text; the
\* second got the resolver's six-digit counter
C13_Witness ==
    /\ FilenameProcessed
    /\ \E i, j \in 1..Len(items) :
          /\ i # j
          /\ items[i].current_path.dir = items[j].current_path.dir
          /\ items[j].current_path.name
                = AddCounter(items[i].current_path.name, 6, 1)

\* C14: a second Filename run on the output of the first (same
\* configuration, the first run's renames applied) plans no rename.
C14_SecondRunPlansNoRename ==
    (run.mode = "process" /\ run.steps = <<"filename", "filename">>)
        => \A i \in 1..Len(items) : items[i].action # "RENAME"

----------------------------------------------------------------------------
(* StandardizeStep.process on a scanned tree with one folder named by a    *)
(* timestamp, as a dry run and as a real run                               *)

\* the folder named by a timestamp, directly in the source root or one
\* level below
StdFolderDirs == {<<"src", StampFolder>>, <<"src", "A", StampFolder>>}

StdFolderNames == {Nm("a", ".jpg"), Nm("p", ".jpg"), Nm("q", ".jpeg"), Nm("r", ".JPG")}

\* every file has its own content
StdFileOf(n) == File(TextRank(n.base), 10, 0, T1993, T1993)

StdTrees ==
    {[p \in {P(d, n) : n \in S} |-> StdFileOf(p.name)] :
        d \in StdFolderDirs,
        S \in {T \in SUBSET StdFolderNames : T # {} /\ Cardinality(T) <= MaxStdFiles}}

StdConfigs ==
    {[ServerConfig EXCEPT !.preset = ps, !.hour_format_12 = h12] :
        ps \in {"pcloud", "google_photos", "default"}, h12 \in BOOLEAN}

InitStandardize == InitProcess(StdTrees, StdConfigs)

\* step.process(context, scanner.scan(...)); shutil.move does not fail
StandardizeCall ==
    /\ run.mode = "idle"
    /\ \E dry_run \in BOOLEAN, order \in ScanOrders(fs, SourceRoot, "all") :
          \E r \in {StandardizeProcess(fs, Scan(order), Ctx(dry_run), {})} :
             /\ fs' = r.fs
             /\ items' = r.items
             /\ run' = [ProcessCalled("standardize") EXCEPT !.dry = dry_run]
    /\ UNCHANGED <<operations, changes, opSeq, chSeq, clock, last, env>>

NextStandardize == StandardizeCall

SpecStandardize == InitStandardize /\ [][NextStandardize]_vars

Standardized == run.mode = "process" /\ run.steps = <<"standardize">>

\* the folder of the scanned tree that is named by a timestamp
StdFolderOf(f) == CHOOSE d \in StdFolderDirs : \E p \in DOMAIN f : p.dir = d

\* the items of the files that were in that folder (a real run rebases
\* original_path; the content tells the file)
StdFolderItems ==
    {i \in 1..Len(items) :
        \E p \in DOMAIN run.fs0 :
            /\ p.dir = StdFolderOf(run.fs0)
            /\ Exists(fs, items[i].original_path)
            /\ fs[items[i].original_path].content = run.fs0[p].content}

\* C15: the files of a folder named by a timestamp get pairwise distinct
\* destination paths, all in the parent directory of the folder, for every
\* preset, in a dry run and in a real run.
C15_FolderFilesDistinctInParent ==
    Standardized =>
        LET folder == StdFolderOf(run.fs0)
        IN \A i \in StdFolderItems :
              /\ items[i].destination_path # NoPath
              /\ items[i].destination_path.dir = SubSeq(folder, 1, Len(folder) - 1)
              /\ \A j \in StdFolderItems :
                    i # j => items[i].destination_path # items[j].destination_path

----------------------------------------------------------------------------
(* GroupStep.process on a scanned tree                                     *)

GroupPaths ==
    {P(<<"src">>, Nm("a", ".jpg")), P(<<"src", "A">>, Nm("p", ".jpg")),
     P(<<"src", "B">>, Nm("p", ".jpg")), P(<<"src">>, StampedName)}

\* files with and without EXIF date; the creation/change time the file
\* system reports is the modification time, a later time, or 0
GroupFiles ==
    {File(1, 10, exif, T1993, ctime) : exif \in {0, T2024}, ctime \in {0, T1993, T2026}}

GroupTrees ==
    UNION {[S -> GroupFiles] :
             S \in {T \in SUBSET GroupPaths : T # {} /\ Cardinality(T) <= MaxGroupFiles}}

GroupConfigs ==
    {[ServerConfig EXCEPT !.prioritize_filename = pf, !.structure = st] :
        pf \in BOOLEAN, st \in {"year_month", "year", "flat"}}

InitGroup == InitProcess(GroupTrees, GroupConfigs)

\* step.process(context, scanner.scan(...))
GroupCall ==
    /\ run.mode = "idle"
    /\ \E order \in ScanOrders(fs, SourceRoot, "all") :
          items' = GroupProcess(fs, Scan(order), Ctx(TRUE)).items
    /\ run' = ProcessCalled("group")
    /\ UNCHANGED <<fs, operations, changes, opSeq, chSeq, clock, last, env>>

NextGroup == GroupCall

SpecGroup == InitGroup /\ [][NextGroup]_vars

Grouped == run.mode = "process" /\ run.steps = <<"group">>

\* C16: with structure year_month, an item without capture date and without
\* usable filename date is planned as a MOVE to
\* <source_root>/<YYYY>/<MM>/<name>, year and month taken from the file's
\* modification time.
C16_GroupedByModificationTime ==
    Grouped /\ env.config.structure = "year_month" =>
        \A p \in DOMAIN fs :
            (fs[p].exif = 0 /\ (~env.config.prioritize_filename \/ ~HasTs(p.name)))
                => /\ ItemAt(items, p).action = "MOVE"
                   /\ ItemAt(items, p).destination_path
                        = P(<<"src", YearDir(fs[p].mtime), MonthDir(fs[p].mtime)>>, p.name)

----------------------------------------------------------------------------
(* TransferStep.process on the items of a scanned tree, fresh or as a      *)
(* prior step left them                                                    *)

TransferSourcePaths ==
    {P(<<"src">>, Nm("a", ".jpg")),
     P(<<"src">>, AddCounter(Nm("a", ".jpg"), 0, 1)),
     P(<<"src", "A">>, Nm("p", ".jpg")),
     P(<<"src", "A">>, [Nm("p", ".jpg") EXCEPT !.dup = 1])}

\* files already in the target root
TransferTargetPaths == {P(<<"dst">>, Nm("a", ".jpg")), P(<<"dst", "A">>, Nm("p", ".jpg"))}

\* files of the same base name have the same bytes
TransferFileOf(p) ==
    File(TextRank(p.name.base) + (IF p.dir[1] = "dst" THEN 100 ELSE 0), 10, 0, T1993, T1993)

TransferTrees ==
    {[p \in S \cup D |-> TransferFileOf(p)] :
        S \in {T \in SUBSET TransferSourcePaths :
                  T # {} /\ Cardinality(T) <= MaxTransferFiles},
        D \in SUBSET TransferTargetPaths}

TransferConfigs ==
    {[ServerConfig EXCEPT !.overwrite = ow, !.target = tr, !.mode = "safe"] :
        ow \in BOOLEAN, tr \in {TargetRoot, SourceRoot}}

\* the step whose output Transfer gets; "none": the scanned items
TransferPriorSteps == {"none", "deduplicate", "group", "transfer"}

InitTransfer == InitProcess(TransferTrees, TransferConfigs)

\* the items handed to Transfer
TransferPrepare ==
    /\ run.mode = "idle"
    /\ \E prior \in TransferPriorSteps, order \in ScanOrders(fs, SourceRoot, "all") :
          /\ items' = IF prior = "none" THEN Scan(order)
                      ELSE Process(prior, fs, Scan(order), Ctx(FALSE), {}).items
          /\ run' = [IdleRun EXCEPT !.mode = "prepared", !.fs0 = fs,
                                    !.steps = IF prior = "none" THEN <<>> ELSE <<prior>>]
    /\ UNCHANGED <<fs, operations, changes, opSeq, chSeq, clock, last, env>>

\* step.process(context, items)
TransferCall ==
    /\ run.mode = "prepared"
    /\ items' = TransferProcess(fs, items, Ctx(FALSE)).items
    /\ run' = [run EXCEPT !.mode = "process", !.steps = Append(@, "transfer")]
    /\ UNCHANGED <<fs, operations, changes, opSeq, chSeq, clock, last, env>>

NextTransfer == TransferPrepare \/ TransferCall

SpecTransfer == InitTransfer /\ [][NextTransfer]_vars

Transferred == run.mode = "process" /\ run.steps[Len(run.steps)] = "transfer"

\* the pending destination_path of a prior step if set, else current_path
EffectivePath(item) ==
    IF item.destination_path # NoPath THEN item.destination_path ELSE item.current_path

\* target_root joined with the path relative to source_root
TargetOf(p) == P(env.config.target \o RelDir(SourceRoot, p), p.name)

\* C17: an item that is not DELETE and whose effective input path lies under
\* source_root is planned as a MOVE to target_root / relative path, when no
\* file exists there.
C17_MovesToTargetRelative ==
    [][TransferCall =>
        \A i \in 1..Len(items) :
            (/\ items[i].action # "DELETE"
             /\ IsUnder(SourceRoot, EffectivePath(items[i]))
             /\ ~Exists(fs, TargetOf(EffectivePath(items[i]))))
                => /\ items'[i].action = "MOVE"
                   /\ items'[i].destination_path = TargetOf(EffectivePath(items[i]))]_vars

\* a file of a subfolder, with a destination pending from Group, planned
\* into the same subfolder of a target root that differs from the source
C17_Witness ==
    /\ Transferred /\ run.steps = <<"group", "transfer">>
    /\ env.config.target = TargetRoot
    /\ \E i \in 1..Len(items) :
          /\ items[i].action = "MOVE"
          /\ items[i].original_path.dir = <<"src", "A">>
          /\ items[i].destination_path = P(<<"dst", "1993", "07">>, Nm("p", ".jpg"))

\* C18: with overwrite disabled no planned destination is occupied by a
\* different file under target_root, and no two items of the call are
\* planned onto the same destination.
C18_NoCollisionAtDestination ==
    (Transferred /\ run.steps = <<"transfer">> /\ ~env.config.overwrite) =>
        \A i \in 1..Len(items) :
            items[i].action = "MOVE" =>
                /\ Exists(fs, items[i].destination_path)
                      => items[i].destination_path = items[i].original_path
                /\ \A j \in 1..Len(items) :
                      (j # i /\ items[j].action = "MOVE")
                          => items[j].destination_path # items[i].destination_path

----------------------------------------------------------------------------
(* Scanner.scan_count                                                      *)

\* Optional[int] = None
NoLimit == 0 - 1

\* d.startswith("."), for the directory names that occur
HiddenDirs == {".undo_trash", ".git"}

\* os.walk(source_root) with the hidden directories pruned: the files it
\* lists
Walked(f, source_root) ==
    {p \in DOMAIN f :
        /\ IsUnder(source_root, p)
        /\ \A k \in (Len(source_root) + 1)..Len(p.dir) : p.dir[k] \notin HiddenDirs}

\* os.walk lists the files in an order the file system chooses
WalkOrders(f, source_root) ==
    LET S == Walked(f, source_root)
    IN {s \in [1..Cardinality(S) -> S] : \A i, j \in DOMAIN s : i # j => s[i] # s[j]}

\* the name and category tests of the loop body
CountedName(n, category) ==
    /\ ~IsHidden(n)
    /\ category = "all" \/ ExtCategory(Lower(n.ext)) = category

\* "for name in files" from file i on
RECURSIVE ScanCountLoop(_, _, _, _, _)
ScanCountLoop(order, category, limit, i, count) ==
    IF i > Len(order) THEN [count |-> count, truncated |-> FALSE]
    ELSE IF ~CountedName(order[i].name, category)
    THEN ScanCountLoop(order, category, limit, i + 1, count)
    ELSE IF limit # NoLimit /\ count + 1 >= limit
    THEN [count |-> count + 1, truncated |-> TRUE]
    ELSE ScanCountLoop(order, category, limit, i + 1, count + 1)

ScanCount(order, category, limit) == ScanCountLoop(order, category, limit, 1, 0)

----------------------------------------------------------------------------
(* Scanner.scan and Scanner.scan_count on a tree, before and after a       *)
(* Deduplicate step has moved files to the undo trash                      *)

ScanPaths ==
    {P(<<"src", "A">>, Nm("p", ".jpg")),
     P(<<"src", "A">>, [Nm("p", ".jpg") EXCEPT !.dup = 1]),
     P(<<"src">>, Nm("a", ".txt")),
     P(<<"src">>, Nm(".DS_Store", "")),
     P(<<"src", ".git">>, Nm("q", ".txt"))}

\* the two files named p hold the same bytes
ScanFileOf(p) == File(TextRank(p.name.base), 10, 0, T1993, T1993)

ScanTrees ==
    {[p \in S |-> ScanFileOf(p)] :
        S \in {T \in SUBSET ScanPaths : Cardinality(T) <= MaxScanFiles}}

ScanCategories == {"all", "photos", "docs", "others"}

InitScan == InitProcess(ScanTrees, {ServerConfig})

\* Scanner.scan(source_root, category)
ScanCall ==
    /\ run.mode \in {"idle", "executed"}
    /\ \E category \in ScanCategories :
          \E order \in ScanOrders(fs, SourceRoot, category) : items' = Scan(order)
    /\ run' = [run EXCEPT !.mode = IF run.mode = "idle" THEN "scanned" ELSE "rescanned",
                          !.fs0 = fs]
    /\ UNCHANGED <<fs, operations, changes, opSeq, chSeq, clock, last, env>>

\* run_step_logic for the step deduplicate on the scanned items, not dry:
\* the DELETE items are moved to <source_root>/.undo_trash
ScanDeleteExecute ==
    /\ run.mode = "scanned"
    /\ \E r \in {RunStepLogic("deduplicate", Ctx(FALSE), fs, items, {})} :
          /\ fs' = r.fs
          /\ items' = r.items
    /\ run' = [run EXCEPT !.mode = "executed", !.steps = <<"deduplicate">>]
    /\ UNCHANGED <<operations, changes, opSeq, chSeq, clock, last, env>>

\* Scanner.scan_count(source_root, category, limit)
ScanCountCall ==
    /\ \E category \in ScanCategories, limit \in {NoLimit} \cup 0..MaxLimit :
          \E order \in WalkOrders(fs, SourceRoot) :
             \E r \in {ScanCount(order, category, limit)} :
                last' = [call |-> "scan_count", category |-> category, limit |-> limit,
                         count |-> r.count, truncated |-> r.truncated]
    /\ UNCHANGED <<fs, operations, changes, opSeq, chSeq, clock, items, run, env>>

NextScan == ScanCall \/ ScanDeleteExecute \/ ScanCountCall

SpecScan == InitScan /\ [][NextScan]_vars

ScanReturned == run.mode \in {"scanned", "rescanned"}

\* C19: scan returns no item whose name starts with "." or that lies below
\* a directory whose name starts with ".", such as <source_root>/.undo_trash.
C19_ScanSkipsHidden ==
    ScanReturned =>
        \A i \in 1..Len(items) :
            /\ ~IsHidden(items[i].original_path.name)
            /\ \A k \in 1..Len(items[i].original_path.dir) :
                  items[i].original_path.dir[k] \notin HiddenDirs

\* the files of the tree that match the category
Matching(f, category) == {p \in Walked(f, SourceRoot) : CountedName(p.name, category)}

\* C20: for n matching files and a limit L >= 1, scan_count returns
\* count = min(n, L) and truncated exactly when n > L.
C20_CountAndTruncated ==
    [][ScanCountCall /\ last'.limit >= 1 =>
        LET n == Cardinality(Matching(fs, last'.category))
            L == last'.limit
        IN /\ last'.count = IF n < L THEN n ELSE L
           /\ last'.truncated <=> n > L]_vars

----------------------------------------------------------------------------
(* undo_operation(id, require_latest=True) against undo_last_operation()   *)

\* what undo_operation leaves behind and returns, as a value: the file
\* system, the two tables and the result fields
UndoOperationResult(f, ops, chs, opid, require_latest, faults) ==
    LET rows == ChangesOf(chs, opid)
        r == UndoLoop(f, rows, faults, 1, <<>>)
        refused(msg) == [fs |-> f, operations |-> ops, changes |-> chs, success |-> FALSE,
                         undone_count |-> 0, failed_count |-> 0, message |-> msg]
    IN IF require_latest /\ (ops = {} \/ LatestOp(ops).operation_id # opid)
       THEN refused("Only the latest operation can be undone")
       ELSE IF rows = <<>> THEN refused("No changes found for this operation")
       ELSE [fs |-> r.fs,
             operations |-> {o \in ops : o.operation_id # opid},
             changes |-> {c \in chs : c.operation_id # opid},
             success |-> CountOutcome(r.trace, "undone") > 0,
             undone_count |-> CountOutcome(r.trace, "undone"),
             failed_count |-> CountOutcome(r.trace, "failed"),
             message |-> "Undone"]

\* what the last call left behind and returned
UndoObserved ==
    [fs |-> fs, operations |-> operations, changes |-> changes, success |-> last.success,
     undone_count |-> last.undone_count, failed_count |-> last.failed_count,
     message |-> last.message]

\* C21: undo_last_operation() ends in the file system and store and returns
\* the result that undo_operation(id of the latest operation,
\* require_latest=True) gives from the same file system and store.
C21_UndoOperationSameAsUndoLast ==
    (last.call = "undo_last" /\ last.opsBefore # {}) =>
        UndoObserved = UndoOperationResult(last.fsBefore, last.opsBefore, last.chsBefore,
                                           LatestOp(last.opsBefore).operation_id, TRUE,
                                           last.faults)

----------------------------------------------------------------------------
(* Iterative mode: the items handed to the next step                       *)

\* run_step_logic has returned from a step that was not a dry run
IterativeStepDone ==
    /\ last.call = "run"
    /\ run.mode \in {"step", "run_all"}
    /\ run.steps # <<>>
    /\ ~run.dry

\* C22: in iterative mode, after a step that is not a dry run, every item
\* handed to the next step has as original_path a path where a file is on
\* disk (the item's file), also when the move failed or moved nothing.
C22_OriginalPathOnDisk ==
    IterativeStepDone => \A i \in 1..Len(items) : Exists(fs, items[i].original_path)

----------------------------------------------------------------------------
(* Items between the process calls of a planning chain                     *)

\* the steps of a batch run are planning: only mark_* and process have
\* touched the items
PlanningChain == run.mode = "batch" /\ run.phase = "planning"

\* C23: after any sequence of process calls, an item's destination_path is
\* set exactly when its action is not NONE, except that an item marked
\* DELETE may have no destination_path (its trash path is not yet assigned).
C23_DestinationIffAction ==
    PlanningChain =>
        \A i \in 1..Len(items) :
            \/ items[i].action = "DELETE" /\ items[i].destination_path = NoPath
            \/ (items[i].destination_path # NoPath) <=> (items[i].action # "NONE")


\* the steps that skip the items an earlier step marked DELETE
LaterSteps == {"filename", "standardize", "group", "transfer"}

\* one more step of the chain has planned: step.process has returned
Planned(step) ==
    /\ PlanningChain
    /\ PlanningChain'
    /\ run'.steps = Append(run.steps, step)

\* C24: in a planning chain that has not executed, a process call of
\* Filename, Standardize, Group or Transfer leaves every item that is
\* marked DELETE with its action, current_path and destination_path.
C24_DeleteItemsUntouched ==
    [][\A step \in LaterSteps :
          Planned(step) =>
             /\ Len(items') = Len(items)
             /\ \A i \in 1..Len(items) :
                   items[i].action = "DELETE" =>
                      /\ items'[i].action = "DELETE"
                      /\ items'[i].current_path = items[i].current_path
                      /\ items'[i].destination_path = items[i].destination_path]_vars

C24_Witness ==
    /\ PlanningChain
    /\ Len(run.steps) = 2
    /\ run.steps[1] = "deduplicate"
    /\ run.steps[2] \in LaterSteps
    /\ \E i \in 1..Len(items) : items[i].action = "DELETE"
    /\ \E i \in 1..Len(items) : items[i].action \in {"RENAME", "MOVE"}

----------------------------------------------------------------------------
(* Executing the plan of a step                                            *)

\* the files of f that hold content c
Holding(f, c) == {p \in DOMAIN f : f[p].content = c}

\* every file of f is in g with its content: no file was overwritten
NoFileLost(f, g) ==
    \A p \in DOMAIN f : Cardinality(Holding(g, f[p].content)) = Cardinality(Holding(f, f[p].content))

\* C25: executing the plan of a Filename call item by item loses no file:
\* every file that existed before the execution exists afterwards with its
\* content, whatever the order of the items.
C25_FilenamePlanLosesNoFile ==
    [][(run.mode = "process" /\ run.steps[1] = "filename" /\ run'.mode = "executed")
          => NoFileLost(fs, fs')]_vars


\* where the plan puts the file of an item: the destination of a planned
\* RENAME or MOVE, else the place the file is at
PlannedPlace(item) ==
    IF item.action \in {"RENAME", "MOVE"} /\ item.destination_path # NoPath
    THEN item.destination_path
    ELSE item.original_path

\* C26: Group plans no two items of one call onto the same destination
\* path, and no item onto the path of a file that stays where it is:
\* same-named files of different folders that fall into the same year and
\* month keep distinct destinations.
C26_GroupDestinationsDistinct ==
    Grouped =>
        \A i, j \in 1..Len(items) :
            (i # j /\ items[i].action = "MOVE" /\ items[j].action # "DELETE")
                => PlannedPlace(items[i]) # PlannedPlace(items[j])


\* C27: the canonical rename Deduplicate plans never targets the path of
\* another item of the call that is not marked DELETE, so that executing
\* the plan overwrites no file of other content.
C27_CanonicalRenameOntoFreePath ==
    Deduplicated =>
        \A i, j \in 1..Len(items) :
            (i # j /\ items[i].action = "RENAME" /\ items[j].action # "DELETE")
                => items[i].destination_path # PlannedPlace(items[j])


\* a path of the live tree: not below a .undo_trash folder
Live(p) == \A k \in 1..Len(p.dir) : p.dir[k] # ".undo_trash"

DedupExecuted == run.mode = "executed" /\ run.steps = <<"deduplicate">>

\* C28: after the plan of Deduplicate is executed, of every duplicate
\* cluster of the scanned tree exactly one file with the cluster's content
\* is left in the live tree, whatever the order of the items.
C28_OneFileLeftPerCluster ==
    DedupExecuted =>
        \A p \in DOMAIN run.fs0 :
            Cardinality(Holding(run.fs0, run.fs0[p].content)) > 1
                => Cardinality({q \in Holding(fs, run.fs0[p].content) : Live(q)}) = 1

----------------------------------------------------------------------------
(* Undo and the files on disk                                              *)

\* an undo call has returned
UndoCalled == last.call \in {"undo_last", "undo_operation"}

\* C29: undoing overwrites and destroys no file: every file that was on
\* disk before the undo call is on disk with its content afterwards (a
\* change is only reversed onto a free original path).
C29_UndoLosesNoFile ==
    UndoCalled => NoFileLost(last.fsBefore, fs)

----------------------------------------------------------------------------
(* run-all: the changes reported for each step, dry run and real run       *)

\* generate_changes: one FileChange (original name, new value) per item
\* whose action is not NONE.  new is "deleted", "unknown", the new name of a
\* RENAME, or the destination of a MOVE relative to target_root, else to
\* source_root, else as it is.  (No item has a metadata_timestamp: only
\* StandardizeStep sets one.)
NewValue(item, target_root, source_root) ==
    LET d == item.destination_path
    IN IF item.action = "DELETE" THEN [kind |-> "deleted", path |-> NoPath]
       ELSE IF d = NoPath THEN [kind |-> "unknown", path |-> NoPath]
       ELSE IF item.action = "RENAME" THEN [kind |-> "path", path |-> P(<<>>, d.name)]
       ELSE IF IsUnder(target_root, d)
       THEN [kind |-> "path", path |-> P(RelDir(target_root, d), d.name)]
       ELSE IF IsUnder(source_root, d)
       THEN [kind |-> "path", path |-> P(RelDir(source_root, d), d.name)]
       ELSE [kind |-> "path", path |-> P(<<"/">> \o d.dir, d.name)]

GenerateChanges(its, target_root, source_root) ==
    LET sel == SelectSeq(its, LAMBDA item : item.action # "NONE")
    IN [i \in 1..Len(sel) |->
          [original |-> sel[i].original_path.name,
           new |-> NewValue(sel[i], target_root, source_root)]]

\* "for step_id in request.steps": run_step_logic on the items the previous
\* step returned, one StepResponse with the step's changes appended each time
RECURSIVE RunAllLoop(_, _, _, _, _, _)
RunAllLoop(steps, k, ctx, f, its, results) ==
    IF k > Len(steps) THEN [fs |-> f, items |-> its, results |-> results]
    ELSE LET r == RunStepLogic(steps[k], ctx, f, ResetItems(its), {})
         IN RunAllLoop(steps, k + 1, ctx, r.fs, r.items,
                       Append(results,
                              GenerateChanges(r.items, ctx.target_root, ctx.source_root)))

\* the steps of the requests compared (every step that sets no
\* metadata_timestamp)
ReportSteps == Steps \ {"standardize"}

ReportRequests ==
    UNION {[1..n -> ReportSteps] : n \in 1..MaxReportSteps}

InitReport == InitProcess(Trees, Configs)

\* POST /api/run-all with isDryRun true
ReportDryRun ==
    /\ run.mode = "idle"
    /\ \E steps \in ReportRequests :
       \E order \in ScanOrders(fs, SourceRoot, env.config.fileCategory) :
       \E r \in {RunAllLoop(steps, 1, Ctx(TRUE), fs, Scan(order), <<>>)} :
          /\ fs' = r.fs
          /\ items' = r.items
          /\ last' = [call |-> "run_all", steps |-> steps, order |-> order,
                      dry |-> r.results, real |-> <<>>]
          /\ run' = [StartRun("run_all", "done", TRUE) EXCEPT !.steps = steps]
    /\ UNCHANGED <<operations, changes, opSeq, chSeq, clock, env>>

\* POST /api/run-all with the same configuration and steps, isDryRun false:
\* the scan returns the files in the order it returned them before; the
\* combined changes are saved as one operation
ReportRealRun ==
    /\ run.mode = "run_all" /\ run.dry
    /\ \E r \in {RunAllLoop(last.steps, 1, Ctx(FALSE), fs, Scan(last.order), <<>>)} :
          /\ fs' = r.fs
          /\ items' = r.items
          /\ last' = [last EXCEPT !.real = r.results]
    /\ run' = [run EXCEPT !.dry = FALSE]
    /\ UNCHANGED <<operations, changes, opSeq, chSeq, clock, env>>

NextReport == ReportDryRun \/ ReportRealRun

SpecReport == InitReport /\ [][NextReport]_vars

\* the changes of a report as a set of (original name, new value)
ChangeSet(report) == {report[i] : i \in 1..Len(report)}

\* C30: for the same tree, configuration and steps, the dry-run run-all
\* reports for each step the same set of changes (original name, new value)
\* as the real run-all.
C30_DryRunReportsSameChanges ==
    (run.mode = "run_all" /\ ~run.dry) =>
        \A k \in 1..Len(last.steps) : ChangeSet(last.dry[k]) = ChangeSet(last.real[k])

====
